---- MODULE Spec2Model ----
(***************************************************************************)
(* scriptSyncManager: the next-run-time calculator                         *)
(* (tools/sys/calcNextSyncDatetime.py) and the iterative execution engine  *)
(* with its breakpoint file (core/handler.py: iterate_script, catch_on).   *)
(*                                                                         *)
(* A datetime is a record [day, sec]: day is the number of days since      *)
(* 2023-01-01 (a Sunday) and sec the second of that day.  A time of day    *)
(* "HH:MM:SS" is the triple <<HH, MM, SS>>, a step "Nu" the record         *)
(* [n |-> N, unit |-> u], the step "0" being [n |-> 0, unit |-> ""].       *)
(* A period expression is the record of the branch of get_next_base_date   *)
(* that its text selects, with the numbers that branch extracts from it.   *)
(***************************************************************************)
EXTENDS Integers, Sequences, FiniteSets, TLC

VARIABLES
    \* ---- calculator ----
    cpc,          \* "input": arguments chosen; "done": calcNextSyncDatetime returned
    anchor,       \* current_datetime
    period,       \* period
    start_time,   \* start_time
    end_time,     \* end_time
    step,         \* step
    calcResult,   \* what the call produced: a datetime, or the exception raised
    \* ---- calcUnExecutedTimes ----
    now,          \* datetime.now() at the call
    missed,       \* what calcUnExecutedTimes(anchor, ...) produced
    missedAgain,  \* what the call repeated from the last element of missed produced
    \* ---- execution engine ----
    dependLen,    \* len(depend_data)
    breakpoint,   \* latest_breakpoint.json: its JSON text, or NoFile
    lastCall,     \* the last finished call of iterate_script / catch_on: arguments, result
    succeeded,    \* item indexes invoked successfully since the last iterate_script loop began
    \* ---- breakpoint file on its own ----
    stored,       \* last: the record of the last _save_breakpoint_info that finished;
                  \* attempted: the record of one interrupted since
    \* ---- retry ----
    dataDir,      \* the files of data/<script_name>/: <script_name>.json and
                  \* <script_name>_result.json, each its content or NoFile
    \* ---- scheduler ----
    registry,     \* the script_sync_schedule table: the row of each script name
    clock,        \* the day datetime.now() gives (at 00:00:00)
    is_running,   \* self.is_running
    stop_event,   \* self.stop_event is set
    schedule_heap,\* self.schedule_heap: the entries <<next_sync, name>>, least first
    executor,     \* self.executor: shut down or not, the work items queued, the
                  \* work items a worker thread has taken, the number submitted
    loop,         \* the dispatch thread (scheduler_loop): where it is, what it popped
    stopper,      \* the call of stop: not made, waiting for the pool, returned
    carry,        \* the call of carry_up: not made, dispatching, returned
    \* ---- schedule registry ----
    schedule_rows,\* the rows of the schedule table, in the order of their ids
    menu_names,   \* the names that have a row in the menu table
    callers       \* the threads calling get-or-create: where each is, the name
                  \* it asked for, what its query found

calcVars == <<cpc, anchor, period, start_time, end_time, step, calcResult>>
missedVars == <<now, missed, missedAgain>>
engineVars == <<dependLen, breakpoint, lastCall, succeeded>>
vars == <<cpc, anchor, period, start_time, end_time, step, calcResult,
          now, missed, missedAgain,
          dependLen, breakpoint, lastCall, succeeded, stored, dataDir,
          registry, clock, is_running, stop_event, schedule_heap, executor,
          loop, stopper, carry, schedule_rows, menu_names, callers>>
tableVars == <<schedule_rows, menu_names, callers>>
schedVars == <<registry, clock, is_running, stop_event, schedule_heap, executor,
               loop, stopper, carry>>

\* an optional integer is <<>> (None) or <<i>>
Null == <<>>
Some(i) == <<i>>

\* no latest_breakpoint.json / breakpoint_info = None
NoFile == [exists |-> FALSE]

(***************************************************************************)
(* The proleptic Gregorian calendar of datetime.datetime.                  *)
(***************************************************************************)
Years == 2023..2027

IsLeap(y) == (y % 4 = 0 /\ y % 100 # 0) \/ y % 400 = 0

DaysInMonth(y, m) ==
    IF m = 2 THEN (IF IsLeap(y) THEN 29 ELSE 28)
    ELSE IF m \in {4, 6, 9, 11} THEN 30 ELSE 31

RECURSIVE DaysBeforeYear(_)
DaysBeforeYear(y) ==
    IF y <= 2023 THEN 0
    ELSE DaysBeforeYear(y - 1) + (IF IsLeap(y - 1) THEN 366 ELSE 365)

RECURSIVE DaysBeforeMonth(_, _)
DaysBeforeMonth(y, m) ==
    IF m <= 1 THEN 0 ELSE DaysBeforeMonth(y, m - 1) + DaysInMonth(y, m - 1)

\* datetime(y, m, d) as a day number
Ord(y, m, d) == DaysBeforeYear(y) + DaysBeforeMonth(y, m) + d - 1

YearOf(o) == CHOOSE y \in Years : DaysBeforeYear(y) <= o /\ o < DaysBeforeYear(y + 1)

MonthOf(o) ==
    LET y == YearOf(o)
    IN CHOOSE m \in 1..12 : Ord(y, m, 1) <= o /\ o < Ord(y, m, 1) + DaysInMonth(y, m)

DayOf(o) == o - Ord(YearOf(o), MonthOf(o), 1) + 1

\* datetime.weekday(): 0 = Monday .. 6 = Sunday
Weekday(o) == (o + 6) % 7

\* datetime.isoweekday(): 1 = Monday .. 7 = Sunday
IsoWeekday(o) == Weekday(o) + 1

\* d1 < d2 on datetimes
DtLess(d1, d2) == d1.day < d2.day \/ (d1.day = d2.day /\ d1.sec < d2.sec)

(***************************************************************************)
(* Results of a call: a returned datetime or a raised exception.           *)
(***************************************************************************)
Ok(o, s) == [kind |-> "ok", day |-> o, sec |-> s]
Raise(e) == [kind |-> "raise", exc |-> e]
NoResult == [kind |-> "pending"]     \* the call has not been made
NullResult == [kind |-> "null"]     \* the call returned None

\* "the month has not that many days: use the last day of the month":
\* first of the month + 32 days, .replace(day=1), - 1 day
LastDayViaPlus32(y, m) ==
    LET o == Ord(y, m, 1) + 32
    IN Ord(YearOf(o), MonthOf(o), 1) - 1

\* start_hour, start_minute, start_second = map(int, t.split(":")), then
\* base_date.replace(hour=.., minute=.., second=..): the second of the day
ParseTime(t) == t[1] * 3600 + t[2] * 60 + t[3]

\* parse_step: seconds of a step string, -1 for "Invalid step format"
ParseStep(st) ==
    IF st.unit = "" /\ st.n = 0 THEN 0
    ELSE IF st.unit = "h" THEN st.n * 3600
    ELSE IF st.unit = "m" THEN st.n * 60
    ELSE IF st.unit = "s" THEN st.n
    ELSE -1

(***************************************************************************)
(* get_next_base_date: the next base date (midnight) of each period branch *)
(***************************************************************************)
\* period == "every_day"
NextEveryDay(cur) == Ok(cur.day + 1, 0)

\* period.startswith("every_day_"): days = int(period.split("_")[-1])
NextEveryDayN(cur, days) == Ok(cur.day + days, 0)

\* while next_date.weekday() >= 5: next_date += timedelta(days=1)
RECURSIVE SkipWeekend(_)
SkipWeekend(o) == IF Weekday(o) >= 5 THEN SkipWeekend(o + 1) ELSE o

\* period == "every_wDay"
NextEveryWDay(cur) == Ok(SkipWeekend(cur.day + 1), 0)

\* period.startswith("every_week_"): target_weekday = int(period.split("_")[-1])
NextEveryWeek(cur, target_weekday) ==
    LET days_ahead == target_weekday - IsoWeekday(cur.day)
    IN Ok(cur.day + (IF days_ahead <= 0 THEN days_ahead + 7 ELSE days_ahead), 0)

\* (variant: current_datetime.day <= day keeps the anchor's own month)
NextEveryMonth_OwnMonthOnDay(cur, day) ==
    LET y == YearOf(cur.day)
        m == MonthOf(cur.day)
        next_year == IF m + 1 > 12 THEN y + 1 ELSE y
        next_month == IF m + 1 > 12 THEN 1 ELSE m + 1
    IN IF DayOf(cur.day) <= day
       THEN IF day <= DaysInMonth(y, m) THEN Ok(Ord(y, m, day), 0)
            ELSE Raise("ValueError")
       ELSE IF day >= 1 /\ day <= DaysInMonth(next_year, next_month)
            THEN Ok(Ord(next_year, next_month, day), 0)
            ELSE Ok(LastDayViaPlus32(next_year, next_month), 0)

\* period.startswith("every_month_"): day = int(period.split("_")[-1])
NextEveryMonth(cur, day) ==
    LET y == YearOf(cur.day)
        m == MonthOf(cur.day)
        next_year == IF m + 1 > 12 THEN y + 1 ELSE y
        next_month == IF m + 1 > 12 THEN 1 ELSE m + 1
    IN IF DayOf(cur.day) < day
       THEN \* current_datetime.replace(day=day, ...) outside any try
            IF day <= DaysInMonth(y, m) THEN Ok(Ord(y, m, day), 0)
            ELSE Raise("ValueError")
       ELSE \* try: replace(year, month, day) except ValueError: last day
            IF day >= 1 /\ day <= DaysInMonth(next_year, next_month)
            THEN Ok(Ord(next_year, next_month, day), 0)
            ELSE Ok(LastDayViaPlus32(next_year, next_month), 0)

\* period.endswith("_L"): month = int(re.match(r"every_month(\d+)_L").group(1))
NextMonthL(cur, month) ==
    LET y == YearOf(cur.day)
        m == MonthOf(cur.day)
        next_year == IF m < month \/ (m = month /\ DayOf(cur.day) < 28)
                     THEN y ELSE y + 1
    IN Ok(LastDayViaPlus32(next_year, month), 0)

\* re.match(r"every_month(\d+)_(\d+)", period)
NextMonthDay(cur, month, day) ==
    LET y == YearOf(cur.day)
        m == MonthOf(cur.day)
        next_year == IF m < month \/ (m = month /\ DayOf(cur.day) < day)
                     THEN y ELSE y + 1
    IN IF day >= 1 /\ day <= DaysInMonth(next_year, month)
       THEN Ok(Ord(next_year, month, day), 0)
       ELSE Ok(LastDayViaPlus32(next_year, month), 0)

\* get_next_base_date(): the dispatch over the period text
GetNextBaseDate(cur, p) ==
    CASE p.kind = "every_day"      -> NextEveryDay(cur)
      [] p.kind = "every_day_N"    -> NextEveryDayN(cur, p.n)
      [] p.kind = "every_wDay"     -> NextEveryWDay(cur)
      [] p.kind = "every_week_D"   -> NextEveryWeek(cur, p.d)
      [] p.kind = "every_month_D"  -> NextEveryMonth(cur, p.d)
      [] p.kind = "every_monthM_L" -> NextMonthL(cur, p.m)
      [] p.kind = "every_monthM_D" -> NextMonthDay(cur, p.m, p.d)
      [] OTHER                     -> Raise("ValueError")

\* generate_exec_times: start, start + step, ... while current <= end
RECURSIVE GenerateExecTimes(_, _, _)
GenerateExecTimes(current, end_sec, step_sec) ==
    IF current <= end_sec
    THEN <<current>> \o GenerateExecTimes(current + step_sec, end_sec, step_sec)
    ELSE <<>>

\* (variant: exec_time >= current_datetime)
FirstAfter_NotStrict(times, cur_sec) ==
    LET hits == {i \in 1..Len(times) : times[i] >= cur_sec}
    IN IF hits = {} THEN 0 ELSE CHOOSE i \in hits : \A j \in hits : i <= j

\* for exec_time in today_exec_times: if exec_time > current_datetime: return
\* the index of the first such element, 0 when the loop falls through
FirstAfter(times, cur_sec) ==
    LET hits == {i \in 1..Len(times) : times[i] > cur_sec}
    IN IF hits = {} THEN 0 ELSE CHOOSE i \in hits : \A j \in hits : i <= j

\* step_seconds == 0: only at start_time
CalcStepZero(cur, p, start_sec) ==
    IF cur.sec < start_sec
    THEN Ok(cur.day, start_sec)
    ELSE LET nb == GetNextBaseDate(cur, p)
         IN IF nb.kind = "raise" THEN nb ELSE Ok(nb.day, start_sec)

\* step_seconds != 0: the instants of today, then of the next base date
CalcStepped(cur, p, start_sec, end_sec, step_sec) ==
    LET today_exec_times == GenerateExecTimes(start_sec, end_sec, step_sec)
        hit == FirstAfter(today_exec_times, cur.sec)
    IN IF hit # 0 THEN Ok(cur.day, today_exec_times[hit])
       ELSE LET nb == GetNextBaseDate(cur, p)
            IN IF nb.kind = "raise" THEN nb
               ELSE IF GenerateExecTimes(start_sec, end_sec, step_sec) = <<>>
                    THEN Raise("IndexError")   \* next_exec_times[0] of []
                    ELSE Ok(nb.day, start_sec)

\* re.match(r"\d{4}-\d{2}-\d{2}", period): strptime(period).replace(start time)
CalcFixedDate(p, start_sec) ==
    IF p.m \in 1..12 /\ p.d >= 1 /\ p.d <= DaysInMonth(p.y, p.m)
    THEN Ok(Ord(p.y, p.m, p.d), start_sec)
    ELSE Raise("ValueError")

calcNextSyncDatetime(cur, p, st_time, en_time, st) ==
    LET start_sec == ParseTime(st_time)
        end_sec == ParseTime(en_time)
        step_seconds == ParseStep(st)
    IN IF step_seconds < 0 THEN Raise("ValueError")
       ELSE IF p.kind = "fixed" THEN CalcFixedDate(p, start_sec)
       ELSE IF step_seconds = 0 THEN CalcStepZero(cur, p, start_sec)
       ELSE CalcStepped(cur, p, start_sec, end_sec, step_seconds)

(***************************************************************************)
(* Arguments the calculator is called with.                                *)
(***************************************************************************)
AnchorSpan == 121

\* 2023-12-01 .. 2024-03-31, and the day of the documented scenarios
AnchorDays ==
    (Ord(2023, 12, 1) .. Ord(2023, 12, 1) + AnchorSpan) \cup {Ord(2024, 6, 10)}

\* 00:00:00, 08:30:00, 09:00:00, 15:00:00, 23:59:59
AnchorSecs == {0, 30600, 32400, 54000, 86399}

Periods ==
    { [kind |-> "fixed", y |-> 2024, m |-> 2, d |-> 15],
      [kind |-> "every_day"],
      [kind |-> "every_day_N", n |-> 3],
      [kind |-> "every_wDay"],
      [kind |-> "every_week_D", d |-> 1],
      [kind |-> "every_week_D", d |-> 7],
      [kind |-> "every_month_D", d |-> 1],
      [kind |-> "every_month_D", d |-> 30],
      [kind |-> "every_month_D", d |-> 31],
      [kind |-> "every_monthM_L", m |-> 2],
      [kind |-> "every_monthM_L", m |-> 3],
      [kind |-> "every_monthM_D", m |-> 3, d |-> 15],
      [kind |-> "every_monthM_D", m |-> 2, d |-> 30],
      [kind |-> "malformed"] }

\* <<start_time, end_time>>; the last one has end_time < start_time
Windows ==
    { << <<0, 0, 0>>, <<23, 59, 59>> >>,
      << <<9, 0, 0>>, <<17, 0, 0>> >>,
      << <<17, 0, 0>>, <<9, 0, 0>> >> }

Steps ==
    { [n |-> 0, unit |-> ""], [n |-> 4, unit |-> "h"], [n |-> 90, unit |-> "m"] }

RecurringKinds ==
    {"every_day", "every_day_N", "every_wDay", "every_week_D",
     "every_month_D", "every_monthM_L", "every_monthM_D"}

\* the schedule registry is not being followed
TableIdle ==
    /\ schedule_rows = <<>>
    /\ menu_names = {}
    /\ callers = <<>>

\* no scheduler has been constructed
SchedIdle ==
    /\ registry = <<>>
    /\ clock = 0
    /\ is_running = FALSE
    /\ stop_event = FALSE
    /\ schedule_heap = <<>>
    /\ executor = [shutdown |-> FALSE, pending |-> <<>>, running |-> {}, submitted |-> 0]
    /\ loop = [pc |-> "not_started"]
    /\ stopper = [pc |-> "idle"]
    /\ carry = [pc |-> "idle"]

\* _save_breakpoint_info is not being followed on its own; data/<script_name>/
\* is empty
StoreIdle ==
    /\ stored = [last |-> NoFile, attempted |-> NoFile]
    /\ dataDir = [name_json |-> NoFile, name_result_json |-> NoFile]

EngineIdle ==
    /\ dependLen = 0
    /\ breakpoint = NoFile
    /\ lastCall = [op |-> "none"]
    /\ succeeded = {}
    /\ StoreIdle
    /\ SchedIdle
    /\ TableIdle

\* calcUnExecutedTimes is not being called
MissedIdle ==
    /\ now = [day |-> 0, sec |-> 0]
    /\ missed = [kind |-> "pending"]
    /\ missedAgain = [kind |-> "pending"]

InitCalc ==
    /\ cpc = "input"
    /\ anchor \in [day : AnchorDays, sec : AnchorSecs]
    /\ period \in Periods
    /\ \E w \in Windows : start_time = w[1] /\ end_time = w[2]
    /\ step \in Steps
    /\ calcResult = NoResult
    /\ MissedIdle
    /\ EngineIdle

\* one call calcNextSyncDatetime(anchor, period, start_time, end_time, step)
CalcNext ==
    /\ cpc = "input"
    /\ calcResult' = calcNextSyncDatetime(anchor, period, start_time, end_time, step)
    /\ cpc' = "done"
    /\ UNCHANGED <<anchor, period, start_time, end_time, step>>
    /\ UNCHANGED missedVars
    /\ UNCHANGED engineVars
    /\ UNCHANGED <<stored, dataDir>>
    /\ UNCHANGED schedVars
    /\ UNCHANGED tableVars

NextCalc == CalcNext

SpecCalc == InitCalc /\ [][NextCalc]_vars

(***************************************************************************)
(* calcUnExecutedTimes(last_sync, period, start_time, end_time, step): the *)
(* occurrences after last_sync that are due at datetime.now().  It applies *)
(* calcNextSyncDatetime repeatedly, first to last_sync and then to each    *)
(* occurrence it returned, collecting the results that are <= now.         *)
(***************************************************************************)
\* the most occurrences one call collects
SafetyBound == 50

ListResult(times) == [kind |-> "list", times |-> times]

\* (variant: two equal successive occurrences are collected like any other)
RECURSIVE CollectOccurrences_NoEqualityGuard(_, _, _, _, _, _, _)
CollectOccurrences_NoEqualityGuard(cur, acc, p, st_time, en_time, st, now_dt) ==
    IF Len(acc) >= SafetyBound THEN ListResult(acc)
    ELSE LET r == calcNextSyncDatetime(cur, p, st_time, en_time, st)
             occurrence == [day |-> r.day, sec |-> r.sec]
         IN IF r.kind = "raise" THEN r
            ELSE IF DtLess(now_dt, occurrence) THEN ListResult(acc)
            ELSE CollectOccurrences_NoEqualityGuard(occurrence, Append(acc, occurrence),
                                                    p, st_time, en_time, st, now_dt)

\* the loop: stop when the safety bound is hit or the result is after now,
\* fail when the result equals the occurrence before it, else collect it
\* and go on from it
RECURSIVE CollectOccurrences(_, _, _, _, _, _, _)
CollectOccurrences(cur, acc, p, st_time, en_time, st, now_dt) ==
    IF Len(acc) >= SafetyBound THEN ListResult(acc)
    ELSE LET r == calcNextSyncDatetime(cur, p, st_time, en_time, st)
             occurrence == [day |-> r.day, sec |-> r.sec]
         IN IF r.kind = "raise" THEN r
            ELSE IF DtLess(now_dt, occurrence) THEN ListResult(acc)
            ELSE IF acc # <<>> /\ occurrence = acc[Len(acc)]
                 THEN Raise("NonAdvancingPeriod")
            ELSE CollectOccurrences(occurrence, Append(acc, occurrence),
                                    p, st_time, en_time, st, now_dt)

calcUnExecutedTimes(last_sync, p, st_time, en_time, st, now_dt) ==
    CollectOccurrences(last_sync, <<>>, p, st_time, en_time, st, now_dt)

MissedSpan == 20
MaxGap == 1

\* last_sync_datetime: 2024-02-13 .. 2024-03-04
MissedDays == Ord(2024, 2, 13) .. (Ord(2024, 2, 13) + MissedSpan)

\* datetime.now(): up to MaxGap days after last_sync, at 00:00:00 or 12:00:00
NowSecs == {0, 43200}

InitMissed ==
    /\ cpc = "missed_input"
    /\ anchor \in [day : MissedDays, sec : AnchorSecs]
    /\ period \in Periods
    /\ \E w \in Windows : start_time = w[1] /\ end_time = w[2]
    /\ step \in Steps
    /\ now \in {n \in [day : anchor.day .. (anchor.day + MaxGap), sec : NowSecs] :
                   ~DtLess(n, anchor)}
    /\ calcResult = NoResult
    /\ missed = NoResult
    /\ missedAgain = NoResult
    /\ EngineIdle

\* exec_times = calcUnExecutedTimes(last_sync, period, start_time, end_time, step)
CalcUnExecuted ==
    /\ cpc = "missed_input"
    /\ missed' = calcUnExecutedTimes(anchor, period, start_time, end_time, step, now)
    /\ cpc' = "missed_done"
    /\ UNCHANGED <<anchor, period, start_time, end_time, step, calcResult>>
    /\ UNCHANGED <<now, missedAgain>>
    /\ UNCHANGED engineVars
    /\ UNCHANGED <<stored, dataDir>>
    /\ UNCHANGED schedVars
    /\ UNCHANGED tableVars

\* the same call with last_sync advanced to the last occurrence returned
CalcUnExecutedAgain ==
    /\ cpc = "missed_done"
    /\ missed.kind = "list"
    /\ missed.times # <<>>
    /\ missedAgain' = calcUnExecutedTimes(missed.times[Len(missed.times)], period,
                                          start_time, end_time, step, now)
    /\ cpc' = "missed_again"
    /\ UNCHANGED <<anchor, period, start_time, end_time, step, calcResult>>
    /\ UNCHANGED <<now, missed>>
    /\ UNCHANGED engineVars
    /\ UNCHANGED <<stored, dataDir>>
    /\ UNCHANGED schedVars
    /\ UNCHANGED tableVars

NextMissed ==
    \/ CalcUnExecuted
    \/ CalcUnExecutedAgain

SpecMissed == InitMissed /\ [][NextMissed]_vars

(***************************************************************************)
(* The execution engine: iterate_script and catch_on over the items        *)
(* 0 .. dependLen-1 of depend_data.  Each call gets the set of items on    *)
(* which the iteration function raises in that call, and what the script   *)
(* module exposes in that call.                                            *)
(***************************************************************************)
MaxItems == 5

\* "ok": depend returns the list and iteration exists; the other kinds are
\* the failures of steps 1-5 of iterate_script / steps 2-5 of catch_on
ScriptKinds ==
    {"ok", "no_script", "no_depend", "depend_none", "not_iterable", "no_iteration"}

\* str(e) of the exception the iteration function raises on item i
ErrorOf(i) == <<"error", i>>

(***************************************************************************)
(* latest_breakpoint.json.  The text json.dump writes for a breakpoint     *)
(* record is the sequence of its members in the order the dict was built,  *)
(* each a key with the JSON literal of its value; closed tells whether the *)
(* closing brace was written.  json.load gives the record back from the    *)
(* literals, and raises on a text that is not closed.                      *)
(***************************************************************************)
\* the keys of a breakpoint record in the order the dict literal lists them
BreakpointKeys(info) ==
    IF "catch_on_executed" \in DOMAIN info
    THEN <<"total_items", "successful_items", "failed_items",
           "last_successful_index", "catch_on_executed", "catch_on_start_index">>
    ELSE <<"total_items", "successful_items", "failed_items",
           "last_successful_index">>

\* the decimal digits of a non-negative int
RECURSIVE Digits(_)
Digits(i) == IF i < 10 THEN <<i>> ELSE Append(Digits(i \div 10), i % 10)

\* a number literal and the literals null, true, false
JsonNumber(i) == [lit |-> "number", digits |-> Digits(i)]
JsonNull == [lit |-> "null"]
JsonBool(b) == [lit |-> IF b THEN "true" ELSE "false"]

\* (variant: a None last_successful_index is written as 0)
JsonLiteral_NoneAsZero(key, v) ==
    CASE key = "last_successful_index" ->
            IF v = Null THEN JsonNumber(0) ELSE JsonNumber(v[1])
      [] key = "catch_on_executed" -> JsonBool(v)
      [] OTHER -> JsonNumber(v)

\* json.dump of one value: None -> null, True -> true, an int -> its digits
JsonLiteral(key, v) ==
    CASE key = "last_successful_index" ->
            IF v = Null THEN JsonNull ELSE JsonNumber(v[1])
      [] key = "catch_on_executed" -> JsonBool(v)
      [] OTHER -> JsonNumber(v)

\* json.dump(breakpoint_info, f): the members written, in order
JsonDump(info) ==
    [k \in 1..Len(BreakpointKeys(info)) |->
        [key |-> BreakpointKeys(info)[k],
         val |-> JsonLiteral(BreakpointKeys(info)[k], info[BreakpointKeys(info)[k]])]]

\* the int a sequence of decimal digits denotes
RECURSIVE JsonInt(_)
JsonInt(digits) ==
    IF Len(digits) = 1 THEN digits[1]
    ELSE 10 * JsonInt(SubSeq(digits, 1, Len(digits) - 1)) + digits[Len(digits)]

\* json.load of one value
JsonValue(key, literal) ==
    CASE key = "last_successful_index" ->
            IF literal.lit = "null" THEN Null ELSE Some(JsonInt(literal.digits))
      [] key = "catch_on_executed" -> literal.lit = "true"
      [] OTHER -> JsonInt(literal.digits)

\* json.load(f) of a complete text: the dict of its members
JsonLoad(members) ==
    [key \in {members[k].key : k \in 1..Len(members)} |->
        LET k == CHOOSE j \in 1..Len(members) : members[j].key = key
        IN JsonValue(key, members[k].val)]

\* _save_breakpoint_info: open(latest_breakpoint_file, 'w'); json.dump(...)
SaveBreakpointInfo(info) ==
    [exists |-> TRUE, members |-> JsonDump(info), closed |-> TRUE]

\* _load_latest_breakpoint_info: None (NoFile) when the file is absent or
\* json.load raises, else the dict read
LoadLatestBreakpointInfo(file) ==
    IF ~file.exists THEN NoFile
    ELSE IF ~file.closed THEN NoFile
    ELSE JsonLoad(file.members)

\* result of iterate_script as initialised before the try
IterateResult0 ==
    [ success |-> FALSE, total_iterations |-> 0, successful_iterations |-> 0,
      failed_iterations |-> 0, iteration_results |-> <<>>, error_items |-> <<>>,
      breakpoint_info |-> NoFile, message |-> "" ]

\* one pass of the try body for item i that returns: the success record
IterationSucceeded(res, i) ==
    [res EXCEPT !.iteration_results = Append(@, [index |-> i, success |-> TRUE]),
                !.successful_iterations = @ + 1]

\* (variant: the failed item is counted but not recorded in error_items)
IterationFailed_NoErrorItem(res, i) ==
    [res EXCEPT !.iteration_results =
                    Append(@, [index |-> i, success |-> FALSE, error |-> ErrorOf(i)]),
                !.failed_iterations = @ + 1]

\* the except branch for item i: the failure record and the error item
IterationFailed(res, i) ==
    [res EXCEPT !.iteration_results =
                    Append(@, [index |-> i, success |-> FALSE, error |-> ErrorOf(i)]),
                !.failed_iterations = @ + 1,
                !.error_items = Append(@, [index |-> i, error |-> ErrorOf(i)])]

\* (variant: is_err_stop is ignored, the loop never breaks)
RECURSIVE IterateItems_NeverBreaks(_, _, _, _, _)
IterateItems_NeverBreaks(i, n, failing, is_err_stop, res) ==
    IF i >= n THEN res
    ELSE IF i \notin failing
         THEN IterateItems_NeverBreaks(i + 1, n, failing, is_err_stop,
                                       IterationSucceeded(res, i))
         ELSE IterateItems_NeverBreaks(i + 1, n, failing, is_err_stop,
                                       IterationFailed(res, i))

\* (variant: the loop breaks on a failure whatever is_err_stop)
RECURSIVE IterateItems_AlwaysBreaks(_, _, _, _, _)
IterateItems_AlwaysBreaks(i, n, failing, is_err_stop, res) ==
    IF i >= n THEN res
    ELSE IF i \notin failing
         THEN IterateItems_AlwaysBreaks(i + 1, n, failing, is_err_stop,
                                        IterationSucceeded(res, i))
         ELSE IterationFailed(res, i)

\* for i, depend_item in enumerate(depend_data): ... if is_err_stop: break
RECURSIVE IterateItems(_, _, _, _, _)
IterateItems(i, n, failing, is_err_stop, res) ==
    IF i >= n THEN res
    ELSE IF i \notin failing
         THEN IterateItems(i + 1, n, failing, is_err_stop, IterationSucceeded(res, i))
         ELSE IF is_err_stop THEN IterationFailed(res, i)
              ELSE IterateItems(i + 1, n, failing, is_err_stop, IterationFailed(res, i))

\* for i in range(len(iteration_results) - 1, -1, -1): the position in
\* iteration_results of the last success record, None when there is none
LastSuccessfulIndex(iteration_results) ==
    LET ok == {k \in 1..Len(iteration_results) : iteration_results[k].success}
    IN IF ok = {} THEN Null
       ELSE Some((CHOOSE k \in ok : \A j \in ok : j <= k) - 1)

\* step 7 of iterate_script
IterateBreakpointInfo(n, res) ==
    [ total_items |-> n,
      successful_items |-> res.successful_iterations,
      failed_items |-> res.failed_iterations,
      last_successful_index |-> LastSuccessfulIndex(res.iteration_results) ]

\* step 9 of iterate_script
IterateFinalStatus(res) ==
    IF res.failed_iterations = 0
    THEN [res EXCEPT !.success = TRUE, !.message = "all_succeeded"]
    ELSE IF res.successful_iterations > 0
         THEN [res EXCEPT !.success = TRUE, !.message = "partly_succeeded"]
         ELSE [res EXCEPT !.success = FALSE, !.message = "all_failed"]

\* the indexes of the success records of a list of iteration records
SucceededIn(records) == {records[k].index : k \in {j \in 1..Len(records) : records[j].success}}

\* iterate_script(script_name, is_err_stop), steps 1-5 failing or depend None
IterateEarly(kind, n) ==
    CASE kind = "depend_none" ->
            [IterateResult0 EXCEPT !.success = TRUE, !.message = "depend_none"]
      [] kind = "no_iteration" ->
            [IterateResult0 EXCEPT !.total_iterations = n, !.message = "exception"]
      [] OTHER -> [IterateResult0 EXCEPT !.message = "exception"]

\* iterate_script(script_name, is_err_stop)
IterateScript(kind, is_err_stop, failing) ==
    /\ cpc = "engine"
    /\ IF kind # "ok"
       THEN /\ lastCall' = [ op |-> "iterate_script", kind |-> kind,
                             is_err_stop |-> is_err_stop, failing |-> failing,
                             result |-> IterateEarly(kind, dependLen) ]
            /\ UNCHANGED <<breakpoint, succeeded>>
       ELSE \E looped \in { IterateItems(0, dependLen, failing, is_err_stop,
                              [IterateResult0 EXCEPT !.total_iterations = dependLen]) } :
            \E info \in { IterateBreakpointInfo(dependLen, looped) } :
            \E res \in { IterateFinalStatus([looped EXCEPT !.breakpoint_info = info]) } :
               /\ breakpoint' = SaveBreakpointInfo(info)
               /\ succeeded' = SucceededIn(res.iteration_results)
               /\ lastCall' = [ op |-> "iterate_script", kind |-> kind,
                                is_err_stop |-> is_err_stop, failing |-> failing,
                                result |-> res ]
    /\ UNCHANGED dependLen
    /\ UNCHANGED calcVars
    /\ UNCHANGED missedVars
    /\ UNCHANGED <<stored, dataDir>>
    /\ UNCHANGED schedVars
    /\ UNCHANGED tableVars

\* result of catch_on as initialised before the try
CatchOnResult0 ==
    [ success |-> FALSE, breakpoint_info |-> NoFile, continued_iterations |-> <<>>,
      total_continued |-> 0, successful_continued |-> 0, failed_continued |-> 0,
      message |-> "", cleared |-> FALSE ]

ContinuedSucceeded(res, i) ==
    [res EXCEPT !.continued_iterations = Append(@, [index |-> i, success |-> TRUE]),
                !.successful_continued = @ + 1,
                !.total_continued = @ + 1]

ContinuedFailed(res, i) ==
    [res EXCEPT !.continued_iterations =
                    Append(@, [index |-> i, success |-> FALSE, error |-> ErrorOf(i)]),
                !.failed_continued = @ + 1,
                !.total_continued = @ + 1]

\* for i in range(start_index, len(depend_data)): ... except: ... break
RECURSIVE ContinueItems(_, _, _, _)
ContinueItems(i, n, failing, res) ==
    IF i >= n THEN res
    ELSE IF i \notin failing
         THEN ContinueItems(i + 1, n, failing, ContinuedSucceeded(res, i))
         ELSE ContinuedFailed(res, i)

\* (variant: resumes at last_successful_index itself)
CatchOnStartIndex_AtLast(info) ==
    IF info.last_successful_index = Null THEN 0
    ELSE IF info.last_successful_index[1] >= info.total_items - 1 THEN -1
    ELSE info.last_successful_index[1]

\* catch_on: start_index from the loaded breakpoint; -1 stands for
\* "everything already succeeded, nothing to continue"
CatchOnStartIndex(info) ==
    IF info.last_successful_index = Null THEN 0
    ELSE IF info.last_successful_index[1] >= info.total_items - 1 THEN -1
    ELSE info.last_successful_index[1] + 1

\* step 7 of catch_on: the breakpoint written when no continued item failed
CatchOnBreakpointInfo(info, n, start_index, res) ==
    [ total_items |-> n,
      successful_items |-> info.successful_items + res.successful_continued,
      failed_items |-> info.failed_items + res.failed_continued,
      last_successful_index |-> Some(n - 1),
      catch_on_executed |-> TRUE,
      catch_on_start_index |-> start_index ]

\* (variant: the file is removed whenever no continued item failed)
CatchOnClears_WheneverNoFailure(info, n, res) ==
    res.failed_continued = 0

\* step 9 of catch_on: whether the breakpoint file is removed
CatchOnClears(info, n, res) ==
    /\ res.failed_continued = 0
    /\ info.successful_items + res.successful_continued = n

\* step 8 of catch_on
CatchOnFinalStatus(res) ==
    IF res.failed_continued = 0
    THEN [res EXCEPT !.success = TRUE, !.message = "all_succeeded"]
    ELSE IF res.successful_continued > 0
         THEN [res EXCEPT !.success = TRUE, !.message = "partly_succeeded"]
         ELSE [res EXCEPT !.success = FALSE, !.message = "all_failed"]

\* catch_on, from the loaded breakpoint to the returned result and the file
\* it leaves: <<result, latest_breakpoint.json afterwards>>
CatchOnRun(kind, n, failing, info, file) ==
    LET res0 == [CatchOnResult0 EXCEPT !.breakpoint_info = info]
        start_index == CatchOnStartIndex(info)
    IN IF "last_successful_index" \notin DOMAIN info
       THEN << [res0 EXCEPT !.message = "invalid_breakpoint"], file >>
       ELSE IF start_index = -1
       THEN << [res0 EXCEPT !.success = TRUE, !.message = "already_complete"], file >>
       ELSE IF kind \in {"no_script", "no_depend", "not_iterable"}
       THEN << [res0 EXCEPT !.message = "exception"], file >>
       ELSE IF kind = "depend_none"
       THEN << [res0 EXCEPT !.message = "depend_none"], file >>
       ELSE IF start_index >= n
       THEN << [res0 EXCEPT !.message = "out_of_range"], file >>
       ELSE IF kind = "no_iteration"
       THEN << [res0 EXCEPT !.message = "exception"], file >>
       ELSE LET looped == ContinueItems(start_index, n, failing, res0)
                saved == IF looped.failed_continued = 0
                         THEN SaveBreakpointInfo(
                                  CatchOnBreakpointInfo(info, n, start_index, looped))
                         ELSE file
                clears == CatchOnClears(info, n, looped)
            IN << [CatchOnFinalStatus(looped) EXCEPT !.cleared = clears],
                  IF clears THEN NoFile ELSE saved >>

\* catch_on(script_name)
CatchOn(kind, failing) ==
    /\ cpc = "engine"
    /\ \E info \in {LoadLatestBreakpointInfo(breakpoint)} :
       \E out \in { IF info = NoFile
                    THEN << [CatchOnResult0 EXCEPT !.message = "no_breakpoint"],
                            breakpoint >>
                    ELSE CatchOnRun(kind, dependLen, failing, info, breakpoint) } :
          /\ breakpoint' = out[2]
          /\ succeeded' = succeeded \cup SucceededIn(out[1].continued_iterations)
          /\ lastCall' = [ op |-> "catch_on", kind |-> kind, failing |-> failing,
                           result |-> out[1] ]
    /\ UNCHANGED dependLen
    /\ UNCHANGED calcVars
    /\ UNCHANGED missedVars
    /\ UNCHANGED <<stored, dataDir>>
    /\ UNCHANGED schedVars
    /\ UNCHANGED tableVars

\* what the script module exposes to execute_script, and what its function
\* does: the failures of steps 1-5, a function returning None, one returning
\* data, and one returning data that the database refuses
ExecuteKinds ==
    {"ok", "returns_none", "no_script", "depend_raises", "no_function",
     "function_raises", "db_fails"}

\* result of execute_script as initialised before the try
ExecuteResult0 == [success |-> FALSE, message |-> "", data_stored |-> FALSE]

\* the try body of execute_script (steps 1-6): the result it has built when
\* it ends, or the exception that leaves it
ExecuteTry(kind, save_to_db) ==
    IF kind \in {"no_script", "depend_raises", "no_function", "function_raises"}
    THEN Raise(kind)
    ELSE LET done == [ExecuteResult0 EXCEPT !.success = TRUE, !.message = "executed"]
         IN IF kind = "returns_none" \/ ~save_to_db THEN done
            ELSE IF kind = "db_fails"
                 THEN [done EXCEPT !.message = "executed_database_failed"]
                 ELSE [done EXCEPT !.message = "executed_stored", !.data_stored = TRUE]

\* the handler of execute_script lets the exception leave the call
ExecuteExcept_Propagates(outcome) == outcome

\* except Exception as e of execute_script: the message is set on the result
\* initialised before the try
ExecuteExcept(outcome) ==
    IF outcome \in {Raise(kind) : kind \in ExecuteKinds}
    THEN [ExecuteResult0 EXCEPT !.message = "exception"]
    ELSE outcome

\* execute_script(script_name, func_name, save_to_db)
ExecuteScript(kind, save_to_db) ==
    /\ cpc = "engine"
    /\ lastCall' = [ op |-> "execute_script", kind |-> kind, save_to_db |-> save_to_db,
                     result |-> ExecuteExcept(ExecuteTry(kind, save_to_db)) ]
    /\ UNCHANGED <<dependLen, breakpoint, succeeded>>
    /\ UNCHANGED calcVars
    /\ UNCHANGED missedVars
    /\ UNCHANGED <<stored, dataDir>>
    /\ UNCHANGED schedVars
    /\ UNCHANGED tableVars

CalcIdle ==
    /\ cpc = "engine"
    /\ anchor = [day |-> 0, sec |-> 0]
    /\ period = [kind |-> "every_day"]
    /\ start_time = <<0, 0, 0>>
    /\ end_time = <<23, 59, 59>>
    /\ step = [n |-> 0, unit |-> ""]
    /\ calcResult = NoResult
    /\ MissedIdle

Init ==
    /\ dependLen \in 0..MaxItems
    /\ breakpoint = NoFile
    /\ lastCall = [op |-> "none"]
    /\ succeeded = {}
    /\ StoreIdle
    /\ SchedIdle
    /\ TableIdle
    /\ CalcIdle

\* the script is usable and the iteration function raises on the items of failing
IterateRuns ==
    \E is_err_stop \in BOOLEAN, failing \in SUBSET (0..(dependLen - 1)) :
        IterateScript("ok", is_err_stop, failing)

\* the script, its depend or its iteration function is unusable
IterateAborts ==
    \E kind \in ScriptKinds \ {"ok"}, is_err_stop \in BOOLEAN :
        IterateScript(kind, is_err_stop, {})

CatchOnRuns ==
    \E failing \in SUBSET (0..(dependLen - 1)) : CatchOn("ok", failing)

CatchOnAborts ==
    \E kind \in ScriptKinds \ {"ok"} : CatchOn(kind, {})

ExecuteScriptRuns ==
    \E kind \in ExecuteKinds, save_to_db \in BOOLEAN : ExecuteScript(kind, save_to_db)

Next ==
    \/ IterateRuns
    \/ IterateAborts
    \/ CatchOnRuns
    \/ CatchOnAborts
    \/ ExecuteScriptRuns

Spec == Init /\ [][Next]_vars

(***************************************************************************)
(* The breakpoint file on its own: _save_breakpoint_info,                  *)
(* _load_latest_breakpoint_info and _clear_breakpoint_info called with the *)
(* records iterate_script and catch_on build, and a save that the process  *)
(* does not survive.                                                       *)
(***************************************************************************)
StoreMaxItems == 1

\* the records step 7 of iterate_script builds for up to StoreMaxItems items
IterateInfos ==
    UNION { { IterateBreakpointInfo(n,
                  IterateItems(0, n, failing, is_err_stop,
                               [IterateResult0 EXCEPT !.total_iterations = n])) :
              failing \in SUBSET (0..(n - 1)), is_err_stop \in BOOLEAN } :
            n \in 0..StoreMaxItems }

\* the records step 7 of catch_on builds from them when every continued
\* item succeeds
CatchOnInfos ==
    { CatchOnBreakpointInfo(info, info.total_items, CatchOnStartIndex(info),
          ContinueItems(CatchOnStartIndex(info), info.total_items, {}, CatchOnResult0)) :
      info \in {i \in IterateInfos : CatchOnStartIndex(i) \in 0..(i.total_items - 1)} }

BreakpointInfos == IterateInfos \cup CatchOnInfos

InitStore ==
    /\ cpc = "store"
    /\ anchor = [day |-> 0, sec |-> 0]
    /\ period = [kind |-> "every_day"]
    /\ start_time = <<0, 0, 0>>
    /\ end_time = <<23, 59, 59>>
    /\ step = [n |-> 0, unit |-> ""]
    /\ calcResult = NoResult
    /\ MissedIdle
    /\ EngineIdle

\* _save_breakpoint_info(script_name, info) returns
StoreSave(info) ==
    /\ cpc = "store"
    /\ breakpoint' = SaveBreakpointInfo(info)
    /\ stored' = [last |-> info, attempted |-> NoFile]
    /\ lastCall' = [op |-> "save"]
    /\ UNCHANGED <<dependLen, succeeded, dataDir>>
    /\ UNCHANGED schedVars
    /\ UNCHANGED tableVars
    /\ UNCHANGED calcVars
    /\ UNCHANGED missedVars

\* the process stops inside _save_breakpoint_info(script_name, info):
\* written = -1: before latest_breakpoint.json is opened (the file is as it
\* was); written = k >= 0: after open(..., 'w') emptied it and k members
\* reached the file, the closing brace never
StoreSaveInterrupted(info, written) ==
    /\ cpc = "store"
    /\ breakpoint' = IF written = -1 THEN breakpoint
                     ELSE [exists |-> TRUE,
                           members |-> SubSeq(JsonDump(info), 1, written),
                           closed |-> FALSE]
    /\ stored' = [last |-> stored.last, attempted |-> info]
    /\ lastCall' = [op |-> "save_interrupted"]
    /\ UNCHANGED <<dependLen, succeeded, dataDir>>
    /\ UNCHANGED schedVars
    /\ UNCHANGED tableVars
    /\ UNCHANGED calcVars
    /\ UNCHANGED missedVars

\* _load_latest_breakpoint_info(script_name)
StoreLoad ==
    /\ cpc = "store"
    /\ lastCall' = [op |-> "load", result |-> LoadLatestBreakpointInfo(breakpoint)]
    /\ UNCHANGED <<dependLen, breakpoint, succeeded, stored, dataDir>>
    /\ UNCHANGED schedVars
    /\ UNCHANGED tableVars
    /\ UNCHANGED calcVars
    /\ UNCHANGED missedVars

\* _clear_breakpoint_info(script_name)
StoreClear ==
    /\ cpc = "store"
    /\ breakpoint' = NoFile
    /\ stored' = [last |-> NoFile, attempted |-> NoFile]
    /\ lastCall' = [op |-> "clear"]
    /\ UNCHANGED <<dependLen, succeeded, dataDir>>
    /\ UNCHANGED schedVars
    /\ UNCHANGED tableVars
    /\ UNCHANGED calcVars
    /\ UNCHANGED missedVars

StoreSaves == \E info \in BreakpointInfos : StoreSave(info)

StoreSaveInterrupts ==
    \E info \in BreakpointInfos :
        \E written \in -1..Len(JsonDump(info)) : StoreSaveInterrupted(info, written)

NextStore ==
    \/ StoreSaves
    \/ StoreSaveInterrupts
    \/ StoreLoad
    \/ StoreClear

SpecStore == InitStore /\ [][NextStore]_vars

(***************************************************************************)
(* retry.  Manager.retry calls handler.retry_script, which resumes from    *)
(* the execution result an iterator run persisted with save_result_to_json *)
(* and that load_result_from_json reads back.                              *)
(***************************************************************************)
\* save_result_to_json(script_name, result): writes data/<name>/<name>.json
SaveResultToJson(dir, result) == [dir EXCEPT !.name_json = result]

\* load_result_from_json(script_name): reads data/<name>/<name>_result.json,
\* None (NoFile) when that file does not exist
LoadResultFromJson(dir) == dir.name_result_json

\* the execution result an iterator run persists: the indexes of the items
\* that failed, in the order they failed, and the number that succeeded
ExecutionResult(n, res) ==
    [ total_items |-> n,
      success_count |-> res.successful_iterations,
      error_items |-> [k \in 1..Len(res.error_items) |-> res.error_items[k].index] ]

\* an iterator run that persists its result on completion, whatever the outcome
ExecutePersisting(is_err_stop, failing) ==
    /\ cpc = "retry"
    /\ \E result \in { ExecutionResult(dependLen,
                           IterateItems(0, dependLen, failing, is_err_stop,
                               [IterateResult0 EXCEPT !.total_iterations = dependLen])) } :
          /\ dataDir' = SaveResultToJson(dataDir, result)
          /\ lastCall' = [ op |-> "execute", is_err_stop |-> is_err_stop,
                           failing |-> failing, result |-> result ]
    /\ UNCHANGED <<dependLen, breakpoint, succeeded, stored>>
    /\ UNCHANGED schedVars
    /\ UNCHANGED tableVars
    /\ UNCHANGED calcVars
    /\ UNCHANGED missedVars

\* the re-run of the previously failed items, in their order: the items
\* invoked, and the index that failed again (Null when none did)
RECURSIVE ReRunFailed(_, _, _, _)
ReRunFailed(error_items, k, failing, invoked) ==
    IF k > Len(error_items) THEN [invoked |-> invoked, failed_again |-> Null]
    ELSE IF error_items[k] \in failing
         THEN [invoked |-> Append(invoked, error_items[k]),
               failed_again |-> Some(error_items[k])]
         ELSE ReRunFailed(error_items, k + 1, failing, Append(invoked, error_items[k]))

\* retry_script(script_name) given what load_result_from_json returned:
\* nothing to resume from; or the failed items first and "recovery failed"
\* when one fails again; or on to the remainder from success_count
RetryScript(saved, n, failing) ==
    IF saved = NoFile
    THEN [success |-> FALSE, message |-> "no_saved_result", invoked |-> <<>>,
          failing_index |-> Null]
    ELSE LET rerun == ReRunFailed(saved.error_items, 1, failing, <<>>)
             rest == [k \in 1..(n - saved.success_count) |-> saved.success_count + k - 1]
         IN IF rerun.failed_again # Null
            THEN [success |-> FALSE, message |-> "recovery_failed",
                  invoked |-> rerun.invoked, failing_index |-> rerun.failed_again]
            ELSE [success |-> TRUE, message |-> "resumed",
                  invoked |-> rerun.invoked \o rest, failing_index |-> Null]

\* Manager.retry(script_name): result = self.handler.retry_script(script_name)
Retry(failing) ==
    /\ cpc = "retry"
    /\ lastCall' = [ op |-> "retry", failing |-> failing,
                     persisted |-> dataDir.name_json,
                     result |-> RetryScript(LoadResultFromJson(dataDir), dependLen,
                                            failing) ]
    /\ UNCHANGED <<dependLen, breakpoint, succeeded, stored, dataDir>>
    /\ UNCHANGED schedVars
    /\ UNCHANGED tableVars
    /\ UNCHANGED calcVars
    /\ UNCHANGED missedVars

InitRetry ==
    /\ cpc = "retry"
    /\ anchor = [day |-> 0, sec |-> 0]
    /\ period = [kind |-> "every_day"]
    /\ start_time = <<0, 0, 0>>
    /\ end_time = <<23, 59, 59>>
    /\ step = [n |-> 0, unit |-> ""]
    /\ calcResult = NoResult
    /\ MissedIdle
    /\ dependLen \in 0..MaxItems
    /\ breakpoint = NoFile
    /\ lastCall = [op |-> "none"]
    /\ succeeded = {}
    /\ StoreIdle
    /\ SchedIdle
    /\ TableIdle

ExecuteRuns ==
    \E is_err_stop \in BOOLEAN, failing \in SUBSET (0..(dependLen - 1)) :
        ExecutePersisting(is_err_stop, failing)

RetryRuns == \E failing \in SUBSET (0..(dependLen - 1)) : Retry(failing)

NextRetry ==
    \/ ExecuteRuns
    \/ RetryRuns

SpecRetry == InitRetry /\ [][NextRetry]_vars

(***************************************************************************)
(* The scheduler (core/scheduler.py).  The threads are the caller of       *)
(* start, stop and carry_up, the dispatch thread running scheduler_loop,   *)
(* and the worker threads of the pool, each of which runs a work item and  *)
(* then its completion callback.  Nothing in the class takes a lock, so    *)
(* a thread can be preempted between any two statements: the dispatch      *)
(* thread between the clearing of the heap and the pushes of a reload, a   *)
(* callback between its test of is_running and its heappush.  Time is      *)
(* counted in days, every datetime.now() being 00:00:00 of the clock's day.*)
(***************************************************************************)
\* the script names, in the order the queries return their rows
Scripts == <<"a", "b">>

ScriptNames == {Scripts[k] : k \in 1..Len(Scripts)}

NameIndex(s) == CHOOSE k \in 1..Len(Scripts) : Scripts[k] = s

\* the day the scheduler is constructed: 2024-03-01
SchedDay0 == Ord(2024, 3, 1)

MaxTicks == 1
MaxSubmits == 2
MaxFaults == 1

\* max_workers of the ThreadPoolExecutor
MaxWorkers == 2

\* datetime.now()
DatetimeNow == [day |-> clock, sec |-> 0]

\* period = "": the column's default
EmptyPeriod == [kind |-> "empty"]

\* the rows a script can have in script_sync_schedule when the scheduler is
\* constructed; start_time, end_time, step and func_name are unset in all
ScheduleRows ==
    { [turn_on |-> TRUE, period |-> [kind |-> "every_day"],
       last_sync |-> Null, immediate |-> FALSE],
      [turn_on |-> TRUE, period |-> [kind |-> "every_day"],
       last_sync |-> Some([day |-> SchedDay0 - 2, sec |-> 0]), immediate |-> FALSE],
      [turn_on |-> TRUE, period |-> [kind |-> "fixed", y |-> 2024, m |-> 3, d |-> 1],
       last_sync |-> Null, immediate |-> FALSE],
      [turn_on |-> TRUE, period |-> [kind |-> "malformed"],
       last_sync |-> Null, immediate |-> FALSE],
      [turn_on |-> TRUE, period |-> EmptyPeriod,
       last_sync |-> Null, immediate |-> FALSE],
      [turn_on |-> FALSE, period |-> [kind |-> "every_day"],
       last_sync |-> Null, immediate |-> TRUE],
      [turn_on |-> FALSE, period |-> [kind |-> "every_day"],
       last_sync |-> Some([day |-> SchedDay0 - 2, sec |-> 0]), immediate |-> FALSE] }

\* the tables: any row for the first script, and for the second an enabled
\* daily row or one with no period
Registries ==
    { r \in [ScriptNames -> ScheduleRows] :
        /\ r[Scripts[2]].last_sync = Null
        /\ r[Scripts[2]].turn_on
        /\ r[Scripts[2]].period \in {[kind |-> "every_day"], EmptyPeriod} }

\* calcNextSyncDatetime as _load_scripts and _update_script_last_sync call it
\* for a row with start_time, end_time and step unset: start_time "00:00:00",
\* end_time = start_time, step "0"
NextSync(cur, p) ==
    calcNextSyncDatetime(cur, p, <<0, 0, 0>>, <<0, 0, 0>>, [n |-> 0, unit |-> ""])

\* the order of the tuples (next_sync, script_name)
HeapBefore(e1, e2) ==
    \/ DtLess(e1[1], e2[1])
    \/ e1[1] = e2[1] /\ NameIndex(e1[2]) <= NameIndex(e2[2])

\* heappush(self.schedule_heap, e); the heap is kept in the order heappop
\* returns its entries
HeapPush(h, e) ==
    LET k == Cardinality({i \in 1..Len(h) : HeapBefore(h[i], e)})
    IN SubSeq(h, 1, k) \o <<e>> \o SubSeq(h, k + 1, Len(h))

\* the for loop of _load_scripts over the rows the query returned (those
\* with turn_on), from the k-th on: the heap when the loop ends, or when
\* calcNextSyncDatetime raises and the except of the method is reached
RECURSIVE LoadLoop(_, _, _, _)
LoadLoop(rows, k, now_dt, heap) ==
    IF k > Len(Scripts) THEN heap
    ELSE LET script == rows[Scripts[k]]
         IN IF ~script.turn_on \/ script.period = EmptyPeriod
            THEN LoadLoop(rows, k + 1, now_dt, heap)
            ELSE LET last_sync == IF script.last_sync = Null THEN now_dt
                                  ELSE script.last_sync[1]
                     next_sync == NextSync(last_sync, script.period)
                 IN IF next_sync.kind = "raise" THEN heap
                    ELSE LoadLoop(rows, k + 1, now_dt,
                             HeapPush(heap, << [day |-> next_sync.day,
                                                sec |-> next_sync.sec], Scripts[k] >>))

\* self.executor.submit(...) with its add_done_callback: RuntimeError once
\* the executor is shut down, which the except of _execute_script logs
Submit(ex, name, src) ==
    IF ex.shutdown THEN ex
    ELSE [ex EXCEPT !.pending = Append(@, [id |-> ex.submitted + 1, name |-> name,
                                           src |-> src, phase |-> "queued",
                                           next |-> NoResult]),
                    !.submitted = @ + 1]

\* _immediate_execute: _execute_script for every row with immediate, from
\* the k-th on
RECURSIVE ImmediateExecute(_, _, _)
ImmediateExecute(rows, k, ex) ==
    IF k > Len(Scripts) THEN ex
    ELSE ImmediateExecute(rows, k + 1,
             IF rows[Scripts[k]].immediate THEN Submit(ex, Scripts[k], "immediate")
             ELSE ex)

restVars == <<calcVars, missedVars, engineVars, stored, dataDir, tableVars>>

InitSched ==
    /\ cpc = "sched"
    /\ anchor = [day |-> 0, sec |-> 0]
    /\ period = [kind |-> "every_day"]
    /\ start_time = <<0, 0, 0>>
    /\ end_time = <<23, 59, 59>>
    /\ step = [n |-> 0, unit |-> ""]
    /\ calcResult = NoResult
    /\ MissedIdle
    /\ dependLen = 0
    /\ breakpoint = NoFile
    /\ lastCall = [op |-> "none"]
    /\ succeeded = {}
    /\ StoreIdle
    /\ registry \in Registries
    /\ clock = SchedDay0
    /\ is_running = FALSE
    /\ stop_event = FALSE
    /\ schedule_heap = <<>>
    /\ executor = [shutdown |-> FALSE, pending |-> <<>>, running |-> {}, submitted |-> 0]
    /\ loop = [pc |-> "not_started"]
    /\ stopper = [pc |-> "idle"]
    /\ carry = [pc |-> "idle"]
    /\ TableIdle

\* start(): is_running, _load_scripts, _immediate_execute, the dispatch thread
Start ==
    /\ cpc = "sched"
    /\ loop.pc = "not_started"
    /\ stopper.pc = "idle"
    /\ is_running' = TRUE
    /\ stop_event' = FALSE
    /\ schedule_heap' = LoadLoop(registry, 1, DatetimeNow, <<>>)
    /\ executor' = ImmediateExecute(registry, 1, executor)
    /\ loop' = [pc |-> "top", entry |-> <<>>, rows |-> <<>>, faults |-> 0,
                survived |-> FALSE, dispatched |-> [s \in ScriptNames |-> 0],
                reloaded |-> FALSE, waited |-> FALSE]
    /\ UNCHANGED <<registry, clock, stopper, carry>>
    /\ UNCHANGED restVars

\* a day passes
Tick ==
    /\ cpc = "sched"
    /\ clock < SchedDay0 + MaxTicks
    /\ clock' = clock + 1
    /\ UNCHANGED <<registry, is_running, stop_event, schedule_heap, executor, loop,
                   stopper, carry>>
    /\ UNCHANGED restVars

\* the exception leaves scheduler_loop and the dispatch thread ends
SchedulerLoopExcept_Propagates(lp) ==
    [lp EXCEPT !.pc = "ended", !.entry = <<>>, !.faults = @ + 1]

\* except Exception of scheduler_loop: log, sleep(1), next pass of the while
SchedulerLoopExcept(lp) ==
    [lp EXCEPT !.pc = "top", !.entry = <<>>, !.faults = @ + 1]

\* self._execute_script(script_name) called by the loop; with fault "db" the
\* registry query raises and the except of _execute_script logs it
LoopDispatch(name, fault) ==
    /\ executor.submitted < MaxSubmits
    /\ LET submits == fault # "db" /\ ~executor.shutdown
       IN /\ executor' = IF fault = "db" THEN executor
                         ELSE Submit(executor, name, "loop")
          /\ loop' = [loop EXCEPT !.pc = "top", !.entry = <<>>,
                          !.faults = IF fault = "db" THEN @ + 1 ELSE @,
                          !.survived = @ \/ (submits /\ loop.faults > 0),
                          !.waited = @ \/ (submits /\ loop.pc = "waiting"),
                          !.dispatched[name] = IF submits THEN @ + 1 ELSE @]

\* (no popped entry is held back)
NextTimeInFuture_Never(next_time, now_dt) == FALSE

\* if next_time > now
NextTimeInFuture(next_time, now_dt) == DtLess(now_dt, next_time)

\* one pass of the while of scheduler_loop up to the wait, the dispatch or
\* the call of _load_scripts; with fault "body" a statement of the try
\* raises after the heappop
LoopTop(fault) ==
    /\ cpc = "sched"
    /\ loop.pc = "top"
    /\ fault # "none" =>
           /\ loop.faults < MaxFaults
           /\ is_running /\ ~stop_event
           /\ schedule_heap # <<>>
           /\ fault = "db" => ~DtLess(DatetimeNow, Head(schedule_heap)[1])
    /\ IF ~is_running \/ stop_event
       THEN /\ loop' = [loop EXCEPT !.pc = "ended"]
            /\ UNCHANGED <<schedule_heap, executor>>
       ELSE IF schedule_heap = <<>>
       THEN /\ loop' = [loop EXCEPT !.pc = "reload"]
            /\ UNCHANGED <<schedule_heap, executor>>
       ELSE /\ schedule_heap' = Tail(schedule_heap)
            /\ IF fault = "body"
               THEN /\ loop' = SchedulerLoopExcept(loop)
                    /\ UNCHANGED executor
               ELSE IF NextTimeInFuture(Head(schedule_heap)[1], DatetimeNow)
               THEN /\ loop' = [loop EXCEPT !.pc = "waiting",
                                            !.entry = Head(schedule_heap)]
                    /\ UNCHANGED executor
               ELSE LoopDispatch(Head(schedule_heap)[2], fault)
    /\ UNCHANGED <<registry, clock, is_running, stop_event, stopper, carry>>
    /\ UNCHANGED restVars

\* self.stop_event.wait(timeout=wait_time) returns: set, and the loop
\* breaks; or timed out, and the popped script is dispatched
LoopWake(fault) ==
    /\ cpc = "sched"
    /\ loop.pc = "waiting"
    /\ fault # "none" => loop.faults < MaxFaults /\ ~stop_event
    /\ IF stop_event
       THEN /\ loop' = [loop EXCEPT !.pc = "ended", !.entry = <<>>]
            /\ UNCHANGED executor
       ELSE /\ ~DtLess(DatetimeNow, loop.entry[1])
            /\ LoopDispatch(loop.entry[2], fault)
    /\ UNCHANGED <<registry, clock, is_running, stop_event, schedule_heap, stopper,
                   carry>>
    /\ UNCHANGED restVars

\* _load_scripts called by the loop on an empty heap, up to the clearing of
\* the heap; with fault "db" the query raises and the heap is left as it is
LoopReloadBegin(fault) ==
    /\ cpc = "sched"
    /\ loop.pc = "reload"
    /\ fault # "none" => loop.faults < MaxFaults
    /\ IF fault = "db"
       THEN /\ loop' = [loop EXCEPT !.pc = "top", !.faults = @ + 1]
            /\ UNCHANGED schedule_heap
       ELSE /\ loop' = [loop EXCEPT !.pc = "reloading", !.rows = registry,
                                    !.reloaded = TRUE]
            /\ schedule_heap' = <<>>
    /\ UNCHANGED <<registry, clock, is_running, stop_event, executor, stopper, carry>>
    /\ UNCHANGED restVars

\* the for loop of that _load_scripts, over the rows it had queried
LoopReloadFinish ==
    /\ cpc = "sched"
    /\ loop.pc = "reloading"
    /\ schedule_heap' = LoadLoop(loop.rows, 1, DatetimeNow, schedule_heap)
    /\ loop' = [loop EXCEPT !.pc = "top", !.rows = <<>>]
    /\ UNCHANGED <<registry, clock, is_running, stop_event, executor, stopper, carry>>
    /\ UNCHANGED restVars

\* a worker thread takes the oldest queued work item; a pool that was shut
\* down without cancel_futures still runs what is queued
WorkerStart ==
    /\ cpc = "sched"
    /\ executor.pending # <<>>
    /\ Cardinality(executor.running) < MaxWorkers
    /\ executor' = [executor EXCEPT
                        !.pending = Tail(@),
                        !.running = @ \cup {[Head(executor.pending) EXCEPT
                                                 !.phase = "run"]}]
    /\ UNCHANGED <<registry, clock, is_running, stop_event, schedule_heap, loop,
                   stopper, carry>>
    /\ UNCHANGED restVars

\* _run_script_with_handler returns and _update_script_last_sync runs on the
\* same thread up to the computation of next_sync: the row is committed, and
\* the script goes on to the heappush if it has a period, is_running is
\* true and calcNextSyncDatetime does not raise
WorkerFinish(t) ==
    /\ cpc = "sched"
    /\ t \in executor.running
    /\ t.phase = "run"
    /\ registry' = [registry EXCEPT ![t.name].last_sync = Some(DatetimeNow),
                                    ![t.name].immediate = FALSE]
    /\ LET script_schedule == registry[t.name]
           reinserts == script_schedule.period # EmptyPeriod /\ is_running
           next_sync == NextSync(DatetimeNow, script_schedule.period)
       IN executor' =
            [executor EXCEPT !.running =
                IF reinserts /\ next_sync.kind # "raise"
                THEN (@ \ {t}) \cup
                         {[t EXCEPT !.phase = "push",
                                    !.next = [day |-> next_sync.day,
                                              sec |-> next_sync.sec]]}
                ELSE @ \ {t}]
    /\ UNCHANGED <<clock, is_running, stop_event, schedule_heap, loop, stopper, carry>>
    /\ UNCHANGED restVars

\* heappush(self.schedule_heap, (next_sync, script_name)) of the callback
CallbackPush(t) ==
    /\ cpc = "sched"
    /\ t \in executor.running
    /\ t.phase = "push"
    /\ schedule_heap' = HeapPush(schedule_heap, <<t.next, t.name>>)
    /\ executor' = [executor EXCEPT !.running = @ \ {t}]
    /\ UNCHANGED <<registry, clock, is_running, stop_event, loop, stopper, carry>>
    /\ UNCHANGED restVars

\* stop(immediate) up to executor.shutdown: with immediate it returns (the
\* join of the dispatch thread has a timeout), otherwise it waits for the pool
Stop(immediate) ==
    /\ cpc = "sched"
    /\ loop.pc # "not_started"
    /\ stopper.pc = "idle"
    /\ is_running' = FALSE
    /\ stop_event' = TRUE
    /\ executor' = [executor EXCEPT !.shutdown = TRUE]
    /\ stopper' = [pc |-> IF immediate THEN "returned" ELSE "draining",
                   immediate |-> immediate,
                   queued |-> {executor.pending[k].id : k \in 1..Len(executor.pending)}]
    /\ UNCHANGED <<registry, clock, schedule_heap, loop, carry>>
    /\ UNCHANGED restVars

\* executor.shutdown(wait=True) returns: no work item is queued or running
StopDrained ==
    /\ cpc = "sched"
    /\ stopper.pc = "draining"
    /\ executor.pending = <<>>
    /\ executor.running = {}
    /\ stopper' = [stopper EXCEPT !.pc = "returned"]
    /\ UNCHANGED <<registry, clock, is_running, stop_event, schedule_heap, executor,
                   loop, carry>>
    /\ UNCHANGED restVars

\* carry_up(script_name) up to its for loop: exec_times
CarryUpBegin(name) ==
    /\ cpc = "sched"
    /\ loop.pc # "not_started"
    /\ carry.pc = "idle"
    /\ LET script_schedule == registry[name]
           last_sync == IF script_schedule.last_sync = Null THEN DatetimeNow
                        ELSE script_schedule.last_sync[1]
       IN IF script_schedule.period = EmptyPeriod
          THEN carry' = [pc |-> "returned", name |-> name, left |-> 0]
          ELSE \E exec_times \in {calcUnExecutedTimes(last_sync, script_schedule.period,
                                       <<0, 0, 0>>, <<23, 59, 59>>, [n |-> 0, unit |-> ""],
                                       DatetimeNow)} :
                 carry' =
                   IF exec_times.kind # "list"
                   THEN [pc |-> "returned", name |-> name, left |-> 0]
                   ELSE IF exec_times.times = <<>>
                   THEN [pc |-> "returned", name |-> name, left |-> 0]
                   ELSE [pc |-> "dispatching", name |-> name,
                         left |-> Len(exec_times.times)]
    /\ UNCHANGED <<registry, clock, is_running, stop_event, schedule_heap, executor,
                   loop, stopper>>
    /\ UNCHANGED restVars

\* one pass of the for loop of carry_up: _execute_script, sleep(1)
CarryUpDispatch ==
    /\ cpc = "sched"
    /\ carry.pc = "dispatching"
    /\ executor.submitted < MaxSubmits
    /\ executor' = Submit(executor, carry.name, "carry_up")
    /\ carry' = [carry EXCEPT !.left = @ - 1,
                              !.pc = IF carry.left = 1 THEN "returned" ELSE @]
    /\ UNCHANGED <<registry, clock, is_running, stop_event, schedule_heap, loop,
                   stopper>>
    /\ UNCHANGED restVars

LoopPasses == LoopTop("none")

LoopWakes == LoopWake("none")

LoopReloads == LoopReloadBegin("none")

WorkerFinishes == \E t \in executor.running : WorkerFinish(t)

CallbackPushes == \E t \in executor.running : CallbackPush(t)

Stops == \E immediate \in BOOLEAN : Stop(immediate)

CarryUps == \E name \in ScriptNames : CarryUpBegin(name)

NextSched ==
    \/ Start
    \/ Tick
    \/ LoopPasses
    \/ LoopWakes
    \/ LoopReloads
    \/ LoopReloadFinish
    \/ WorkerStart
    \/ WorkerFinishes
    \/ CallbackPushes
    \/ Stops
    \/ StopDrained
    \/ CarryUps
    \/ CarryUpDispatch

SpecSched == InitSched /\ [][NextSched]_vars

(***************************************************************************)
(* The dispatch loop with errors: the registry query of _execute_script or *)
(* of _load_scripts raises ("db"), or a statement of the loop body does    *)
(* ("body"), at most MaxFaults times.                                      *)
(***************************************************************************)
\* the first script daily or due on the day of the start, the second daily
LoopRegistries ==
    { r \in [ScriptNames -> ScheduleRows] :
        /\ \A s \in ScriptNames : r[s].turn_on /\ r[s].last_sync = Null
        /\ r[Scripts[1]].period.kind \in {"every_day", "fixed"}
        /\ r[Scripts[2]].period.kind = "every_day" }

InitLoop ==
    /\ cpc = "sched"
    /\ anchor = [day |-> 0, sec |-> 0]
    /\ period = [kind |-> "every_day"]
    /\ start_time = <<0, 0, 0>>
    /\ end_time = <<23, 59, 59>>
    /\ step = [n |-> 0, unit |-> ""]
    /\ calcResult = NoResult
    /\ MissedIdle
    /\ dependLen = 0
    /\ breakpoint = NoFile
    /\ lastCall = [op |-> "none"]
    /\ succeeded = {}
    /\ StoreIdle
    /\ registry \in LoopRegistries
    /\ clock = SchedDay0
    /\ is_running = FALSE
    /\ stop_event = FALSE
    /\ schedule_heap = <<>>
    /\ executor = [shutdown |-> FALSE, pending |-> <<>>, running |-> {}, submitted |-> 0]
    /\ loop = [pc |-> "not_started"]
    /\ stopper = [pc |-> "idle"]
    /\ carry = [pc |-> "idle"]
    /\ TableIdle

LoopFaultyPasses == \E fault \in {"none", "db", "body"} : LoopTop(fault)

LoopFaultyWakes == \E fault \in {"none", "db"} : LoopWake(fault)

LoopFaultyReloads == \E fault \in {"none", "db"} : LoopReloadBegin(fault)

NextLoop ==
    \/ Start
    \/ Tick
    \/ LoopFaultyPasses
    \/ LoopFaultyWakes
    \/ LoopFaultyReloads
    \/ LoopReloadFinish
    \/ WorkerStart
    \/ WorkerFinishes
    \/ CallbackPushes
    \/ Stops
    \/ StopDrained

SpecLoop == InitLoop /\ [][NextLoop]_vars

(***************************************************************************)
(* The schedule registry: get-or-create of a schedule entry by the worker  *)
(* threads, and convert_menu (SpecRegistry).  The rows of the table are     *)
(* kept in the order of their ids; name is indexed and not unique.          *)
(***************************************************************************)
MaxCallers == 2
MaxRows == 3
MaxMenuItems == 2

Callers == 1..MaxCallers

\* a last_sync_datetime that was stored before, and one a Menu.json gives
StoredSync == Some([day |-> SchedDay0 - 2, sec |-> 0])
MenuSync == Some([day |-> SchedDay0, sec |-> 0])

\* ScriptSyncSchedule(name=...): the defaults of the table's columns
DefaultRow(name) ==
    [name |-> name, period |-> EmptyPeriod, turn_on |-> FALSE, last_sync |-> Null,
     remark |-> ""]

\* an entry that was configured and has run
ConfiguredRow(name) ==
    [DefaultRow(name) EXCEPT !.period = [kind |-> "every_day"], !.turn_on = TRUE,
                             !.last_sync = StoredSync]

\* session.query(...).filter(name == script_name).first(): the index of the
\* first row of that name, 0 when there is none
First(rows, name) ==
    IF \E i \in 1..Len(rows) : rows[i].name = name
    THEN CHOOSE i \in 1..Len(rows) :
             /\ rows[i].name = name
             /\ \A j \in 1..(i - 1) : rows[j].name # name
    ELSE 0

\* the query of get-or-create by thread t; when it raises, the except
\* returns an entry that is not stored
GetOrCreateQuery(t, name, raises) ==
    /\ cpc = "registry"
    /\ callers[t].pc = "idle"
    /\ LET i == First(schedule_rows, name)
       IN callers' = [callers EXCEPT ![t] =
            IF raises THEN [pc |-> "returned", name |-> name, ret |-> DefaultRow(name)]
            ELSE IF i = 0 THEN [pc |-> "missing", name |-> name, ret |-> DefaultRow(name)]
            ELSE [pc |-> "returned", name |-> name, ret |-> schedule_rows[i]]]
    /\ UNCHANGED <<schedule_rows, menu_names>>
    /\ UNCHANGED <<calcVars, missedVars, engineVars, stored, dataDir, schedVars>>

\* the query found nothing: session.add, commit, refresh of a new entry with
\* period "" and turn_on False
GetOrCreateInsert(t) ==
    /\ cpc = "registry"
    /\ callers[t].pc = "missing"
    /\ Len(schedule_rows) < MaxRows
    /\ LET script_schedule == [DefaultRow(callers[t].name) EXCEPT !.remark = "auto"]
       IN /\ schedule_rows' = Append(schedule_rows, script_schedule)
          /\ callers' = [callers EXCEPT ![t] =
                 [pc |-> "returned", name |-> callers[t].name, ret |-> script_schedule]]
    /\ UNCHANGED menu_names
    /\ UNCHANGED <<calcVars, missedVars, engineVars, stored, dataDir, schedVars>>

\* the caller has its entry and may call again
GetOrCreateReturn(t) ==
    /\ cpc = "registry"
    /\ callers[t].pc = "returned"
    /\ callers' = [callers EXCEPT ![t] = [pc |-> "idle"]]
    /\ UNCHANGED <<schedule_rows, menu_names>>
    /\ UNCHANGED <<calcVars, missedVars, engineVars, stored, dataDir, schedVars>>

\* the last_sync_datetime convert_menu gives an existing entry
\* (overwriting whenever the menu provides one)
UpdateLastSync_Overwrites(original_last_sync, provided) ==
    IF provided # Null THEN provided ELSE original_last_sync

\* the last_sync_datetime convert_menu gives an existing entry: the menu's
\* only when the original is None
UpdateLastSync(original_last_sync, provided) ==
    IF original_last_sync = Null /\ provided # Null THEN provided
    ELSE original_last_sync

\* the schedule of one item of Menu.json
MenuItems ==
    { [name |-> n, period |-> p, turn_on |-> on, last_sync |-> ls] :
        n \in ScriptNames,
        p \in {EmptyPeriod, [kind |-> "fixed", y |-> 2024, m |-> 3, d |-> 1]},
        on \in BOOLEAN, ls \in {Null, MenuSync} }

\* the frames convert_menu_to_script_schedule returns: items of distinct names
Menus ==
    { menu \in UNION { [1..n -> MenuItems] : n \in 1..MaxMenuItems } :
        \A i, j \in 1..Len(menu) : menu[i].name = menu[j].name => i = j }

\* the loop of ScriptHandler.convert_menu from the k-th item on: the frame
\* has no period, turn_on or last_sync_datetime column, so row.get gives
\* the defaults
RECURSIVE HandlerConvertLoop(_, _, _)
HandlerConvertLoop(menu, k, rows) ==
    IF k > Len(menu) THEN rows
    ELSE LET i == First(rows, menu[k].name)
         IN HandlerConvertLoop(menu, k + 1,
                IF i # 0
                THEN [rows EXCEPT ![i].period = EmptyPeriod,
                                  ![i].turn_on = FALSE,
                                  ![i].last_sync = UpdateLastSync(rows[i].last_sync, Null)]
                ELSE Append(rows, [DefaultRow(menu[k].name) EXCEPT !.remark = "menu"]))

\* the loop of Config.convert_menu from the k-th item on, on the pair of the
\* schedule rows and the names of the menu rows
RECURSIVE ConfigConvertLoop(_, _, _)
ConfigConvertLoop(menu, k, db) ==
    IF k > Len(menu) THEN db
    ELSE LET i == First(db.rows, menu[k].name)
             schedule == menu[k]
         IN ConfigConvertLoop(menu, k + 1,
                IF menu[k].name \in db.menus /\ i # 0
                THEN [db EXCEPT !.rows[i].period = schedule.period,
                                !.rows[i].turn_on = schedule.turn_on,
                                !.rows[i].last_sync =
                                    UpdateLastSync(db.rows[i].last_sync, schedule.last_sync)]
                ELSE [rows |-> Append(db.rows,
                                  [DefaultRow(menu[k].name) EXCEPT
                                       !.period = schedule.period,
                                       !.turn_on = schedule.turn_on,
                                       !.remark = "config"]),
                      menus |-> db.menus \cup {menu[k].name}])

\* ScriptHandler.convert_menu(menu_path)
HandlerConvertMenu(menu) ==
    /\ cpc = "registry"
    /\ Len(schedule_rows) + Len(menu) <= MaxRows
    /\ schedule_rows' = HandlerConvertLoop(menu, 1, schedule_rows)
    /\ UNCHANGED <<menu_names, callers>>
    /\ UNCHANGED <<calcVars, missedVars, engineVars, stored, dataDir, schedVars>>

\* Config.convert_menu(menu_path)
ConfigConvertMenu(menu) ==
    /\ cpc = "registry"
    /\ Len(schedule_rows) + Len(menu) <= MaxRows
    /\ LET db == ConfigConvertLoop(menu, 1, [rows |-> schedule_rows, menus |-> menu_names])
       IN /\ schedule_rows' = db.rows
          /\ menu_names' = db.menus
    /\ UNCHANGED callers
    /\ UNCHANGED <<calcVars, missedVars, engineVars, stored, dataDir, schedVars>>

\* the tables at the start: empty, or holding the entry of the first script,
\* configured or not yet, with or without its menu row
InitialTables ==
    { [rows |-> <<>>, menus |-> {}] } \cup
    { [rows |-> <<r>>, menus |-> ms] :
        r \in {ConfiguredRow(Scripts[1]), DefaultRow(Scripts[1])},
        ms \in {{}, {Scripts[1]}} }

InitRegistry ==
    /\ cpc = "registry"
    /\ anchor = [day |-> 0, sec |-> 0]
    /\ period = [kind |-> "every_day"]
    /\ start_time = <<0, 0, 0>>
    /\ end_time = <<23, 59, 59>>
    /\ step = [n |-> 0, unit |-> ""]
    /\ calcResult = NoResult
    /\ MissedIdle
    /\ dependLen = 0
    /\ breakpoint = NoFile
    /\ lastCall = [op |-> "none"]
    /\ succeeded = {}
    /\ StoreIdle
    /\ SchedIdle
    /\ \E db \in InitialTables :
           /\ schedule_rows = db.rows
           /\ menu_names = db.menus
    /\ callers = [t \in Callers |-> [pc |-> "idle"]]

GetOrCreateQueries ==
    \E t \in Callers, name \in ScriptNames, raises \in BOOLEAN :
        GetOrCreateQuery(t, name, raises)

GetOrCreateInserts == \E t \in Callers : GetOrCreateInsert(t)

GetOrCreateReturns == \E t \in Callers : GetOrCreateReturn(t)

HandlerConvertMenus == \E menu \in Menus : HandlerConvertMenu(menu)

ConfigConvertMenus == \E menu \in Menus : ConfigConvertMenu(menu)

NextRegistry ==
    \/ GetOrCreateQueries
    \/ GetOrCreateInserts
    \/ GetOrCreateReturns

SpecRegistry == InitRegistry /\ [][NextRegistry]_vars

\* convert_menu, of the handler and of the configuration, called one after
\* the other on the same tables
NextConvert ==
    \/ HandlerConvertMenus
    \/ ConfigConvertMenus

SpecConvert == InitRegistry /\ [][NextConvert]_vars

(***************************************************************************)
(* Properties of iterate_script and catch_on (specification Spec).         *)
(***************************************************************************)
\* the last call was an iterate_script that reached its loop
Iterated == lastCall.op = "iterate_script" /\ lastCall.kind = "ok"

\* the indexes of a list of iteration records
IndexesOf(records) == [k \in 1..Len(records) |-> records[k].index]

\* <<from, from + 1, ..., to - 1>>
Range(from, to) == [k \in 1..(to - from) |-> from + k - 1]

\* the lowest raising item of the last call
FirstFailing == CHOOSE f \in lastCall.failing : \A g \in lastCall.failing : f <= g

\* C1: with stop-on-error true and some item raising, iterate_script invokes
\* the items up to the first raising one and none after it,
\* failed_iterations is 1 with exactly one error item (that item),
\* successful_iterations is the index of the raising item, and the saved
\* checkpoint's last_successful_index is that index minus 1, null when it is 0.
C1_StopsAtFirstFailure ==
    (Iterated /\ lastCall.is_err_stop /\ lastCall.failing # {})
        => LET r == lastCall.result
               f == FirstFailing
           IN /\ IndexesOf(r.iteration_results) = Range(0, f + 1)
              /\ r.failed_iterations = 1
              /\ IndexesOf(r.error_items) = <<f>>
              /\ r.successful_iterations = f
              /\ LoadLatestBreakpointInfo(breakpoint) = r.breakpoint_info
              /\ LoadLatestBreakpointInfo(breakpoint).last_successful_index
                     = (IF f = 0 THEN Null ELSE Some(f - 1))

\* C1 witness: 5 items, item 2 raises (item 4 would too), stop-on-error:
\* success count 2 and last_successful_index 1.
C1_Witness ==
    /\ Iterated /\ lastCall.is_err_stop
    /\ dependLen = 5
    /\ lastCall.failing = {2, 4}
    /\ lastCall.result.successful_iterations = 2
    /\ Len(lastCall.result.iteration_results) = 3
    /\ LoadLatestBreakpointInfo(breakpoint).last_successful_index = Some(1)

\* C1 witness of the null case: the first item raises.
C1_WitnessFirstItem ==
    /\ Iterated /\ lastCall.is_err_stop
    /\ 0 \in lastCall.failing
    /\ dependLen > 1
    /\ LoadLatestBreakpointInfo(breakpoint).last_successful_index = Null

C2_WitnessFromStart ==
    /\ lastCall.op = "catch_on"
    /\ lastCall.result.total_continued > 0
    /\ lastCall.result.breakpoint_info.last_successful_index = Null
    /\ lastCall.result.continued_iterations[1].index = 0

\* C3: with stop-on-error false, iterate_script invokes every item exactly
\* once in ascending index order whatever items raise; the run completes
\* (final status set, checkpoint saved); failed_iterations and the number of
\* error items equal the number of raising items, successful_iterations the
\* number of the others.
C3_ContinuesPastFailures ==
    (Iterated /\ ~lastCall.is_err_stop)
        => LET r == lastCall.result
           IN /\ IndexesOf(r.iteration_results) = Range(0, dependLen)
              /\ \A k \in 1..Len(r.iteration_results) :
                     r.iteration_results[k].success <=> (k - 1) \notin lastCall.failing
              /\ r.failed_iterations = Cardinality(lastCall.failing)
              /\ Len(r.error_items) = Cardinality(lastCall.failing)
              /\ r.successful_iterations = dependLen - Cardinality(lastCall.failing)
              /\ r.message \in {"all_succeeded", "partly_succeeded", "all_failed"}
              /\ LoadLatestBreakpointInfo(breakpoint) = r.breakpoint_info

\* C3 witness: 5 items, items 2 and 4 raise, stop-on-error false:
\* 3 successes, 2 failures, 2 error items.
C3_Witness ==
    /\ Iterated /\ ~lastCall.is_err_stop
    /\ dependLen = 5
    /\ lastCall.failing = {2, 4}
    /\ lastCall.result.successful_iterations = 3
    /\ lastCall.result.failed_iterations = 2
    /\ Len(lastCall.result.error_items) = 2
    /\ Len(lastCall.result.iteration_results) = 5

\* C4: after any iterate_script run the number of error items equals
\* failed_iterations, every error item carries the message of the exception
\* its item raised, and successful_iterations + failed_iterations <=
\* total_iterations.
C4_ErrorItemsMatchFailures ==
    (lastCall.op = "iterate_script")
        => LET r == lastCall.result
           IN /\ Len(r.error_items) = r.failed_iterations
              /\ \A k \in 1..Len(r.error_items) :
                     /\ r.error_items[k].index \in lastCall.failing
                     /\ r.error_items[k].error = ErrorOf(r.error_items[k].index)
              /\ r.successful_iterations + r.failed_iterations <= r.total_iterations

\* C4 witness: a run that continued past two failures.
C4_Witness ==
    /\ Iterated /\ ~lastCall.is_err_stop
    /\ lastCall.result.failed_iterations = 2
    /\ Len(lastCall.result.error_items) = 2
    /\ lastCall.result.successful_iterations >= 1

\* C4 witness: a run that failed before iterating.
C4_WitnessAborted ==
    /\ lastCall.op = "iterate_script"
    /\ lastCall.kind = "no_iteration"
    /\ lastCall.result.total_iterations = dependLen
    /\ dependLen > 0

(***************************************************************************)
(* Properties of calcNextSyncDatetime (specification SpecCalc).            *)
(***************************************************************************)
Returned == cpc = "done" /\ calcResult.kind = "ok"
StartSec == ParseTime(start_time)
EndSec == ParseTime(end_time)
StepSec == ParseStep(step)

\* C5: for every supported period pattern an instant that
\* calcNextSyncDatetime returns is strictly later than the anchor.
C5_LaterThanAnchor ==
    (Returned /\ period.kind \in RecurringKinds \cup {"fixed"})
        => DtLess(anchor, calcResult)

\* C6: a malformed period string gives a null result (and no exception).
C6_MalformedGivesNull ==
    (cpc = "done" /\ period.kind = "malformed") => calcResult = NullResult

\* C7: the day of the returned occurrence qualifies for the period: Monday
\* to Friday for every_wDay, ISO weekday D for every_week_D.
C7_DayQualifies ==
    /\ (Returned /\ period.kind = "every_wDay") => Weekday(calcResult.day) <= 4
    /\ (Returned /\ period.kind = "every_week_D")
           => IsoWeekday(calcResult.day) = period.d

\* the month every_month_D aims at: the anchor's month when the anchor's
\* day is before D, the following month otherwise; as <<year, month>>
C8_TargetMonth ==
    LET y == YearOf(anchor.day)
        m == MonthOf(anchor.day)
    IN IF DayOf(anchor.day) < period.d THEN <<y, m>>
       ELSE IF m = 12 THEN <<y + 1, 1>> ELSE <<y, m + 1>>

\* C8: every_month_D with D beyond the length of the target month returns
\* the last day of that month, and does not fail (stated for step "0" and
\* an anchor not before start_time, where the base date decides the day).
C8_ClampsToMonthLength ==
    (cpc = "done" /\ period.kind = "every_month_D"
       /\ period.d > DaysInMonth(C8_TargetMonth[1], C8_TargetMonth[2])
       /\ StepSec = 0 /\ anchor.sec >= StartSec)
        => /\ calcResult.kind = "ok"
           /\ calcResult.day = Ord(C8_TargetMonth[1], C8_TargetMonth[2],
                                   DaysInMonth(C8_TargetMonth[1], C8_TargetMonth[2]))

\* the last day of month M of year y at start_time
C9_LastDayOf(y) ==
    [day |-> Ord(y, period.m, DaysInMonth(y, period.m)), sec |-> StartSec]

\* C9: every_monthM_L with step "0" returns the last day of month M of the
\* earliest year whose last day of M at start_time is strictly after the
\* anchor (stated for an anchor not before start_time on its day).
C9_EarliestLastDay ==
    (cpc = "done" /\ period.kind = "every_monthM_L" /\ StepSec = 0
       /\ anchor.sec >= StartSec)
        => LET y0 == YearOf(anchor.day)
               y == IF DtLess(anchor, C9_LastDayOf(y0)) THEN y0 ELSE y0 + 1
           IN calcResult = Ok(C9_LastDayOf(y).day, StartSec)

\* the instants start_time + k*step of a day that are not after end_time
C10_Instants ==
    {t \in {StartSec + k * StepSec : k \in 0..(86399 \div StepSec)} : t <= EndSec}

\* the next base date of the period: the date itself for a fixed date
C10_BaseDay ==
    IF period.kind = "fixed" THEN Ord(period.y, period.m, period.d)
    ELSE GetNextBaseDate(anchor, period).day

\* the first instant of the anchor's day after the anchor when there is
\* one, and otherwise start_time on the next base date
C10_FirstInstantAfterAnchor ==
    LET later == {t \in C10_Instants : t > anchor.sec}
    IN /\ calcResult.sec \in C10_Instants
       /\ later # {} => /\ calcResult.day = anchor.day
                        /\ calcResult.sec \in later
                        /\ \A t \in later : calcResult.sec <= t
       /\ later = {} => /\ calcResult.day = C10_BaseDay
                        /\ calcResult.sec = StartSec

\* C10 (as stated): with a non-zero step, whatever the period, a returned
\* instant is start_time + k*step of its day and not after end_time: the
\* first one of the anchor's day after the anchor, else start_time of the
\* next base date.
C10_SteppedInstant_AllPatterns ==
    (Returned /\ StepSec > 0) => C10_FirstInstantAfterAnchor

\* C10 (amended): the same for every period that is not a fixed date; a
\* fixed date is returned at start_time whatever the step and the anchor.
C10_SteppedInstant_NotFixed ==
    /\ (Returned /\ StepSec > 0 /\ period.kind # "fixed")
           => C10_FirstInstantAfterAnchor
    /\ (Returned /\ StepSec > 0 /\ period.kind = "fixed")
           => calcResult = Ok(Ord(period.y, period.m, period.d), StartSec)

\* C10 witness: the anchor is itself an instant of the window (09:00:00 in
\* 09:00:00-17:00:00 stepped by 4h) and the next one, 13:00:00, is returned.
C10_Witness ==
    /\ Returned
    /\ period.kind # "fixed"
    /\ StepSec = 14400
    /\ StartSec = 32400
    /\ anchor.sec = 32400
    /\ calcResult = Ok(anchor.day, 46800)

\* C10 witness of the roll-over: no instant is left on the anchor's day.
C10_WitnessNextDay ==
    /\ Returned
    /\ period.kind = "every_wDay"
    /\ StepSec > 0
    /\ anchor.sec = 86399
    /\ calcResult.day > anchor.day
    /\ calcResult.sec = StartSec

\* C11: with a non-zero step and end_time <= start_time the anchor's day has
\* no instant: calcNextSyncDatetime does not raise, and what it returns is
\* on the next base date of the period (stated for the anchors whose next
\* base date exists).
C11_EmptyWindowRolls ==
    (cpc = "done" /\ StepSec > 0 /\ EndSec <= StartSec
       /\ period.kind \in RecurringKinds
       /\ GetNextBaseDate(anchor, period).kind = "ok")
        => /\ calcResult.kind = "ok"
           /\ calcResult.day = GetNextBaseDate(anchor, period).day

\* C12: every_month_D with step "0" and start_time 00:00:00, where the month
\* aimed at has a day D: an anchor whose day of month is >= D gives day D
\* of the following month at 00:00:00 (January of the next year from
\* December), an anchor whose day is < D gives day D of its own month.
C12_EveryMonthDay ==
    (cpc = "done" /\ period.kind = "every_month_D" /\ StepSec = 0 /\ StartSec = 0
       /\ period.d <= DaysInMonth(C8_TargetMonth[1], C8_TargetMonth[2]))
        => calcResult = Ok(Ord(C8_TargetMonth[1], C8_TargetMonth[2], period.d), 0)

\* C12 witness: every_month_1 from 2024-06-10 gives 2024-07-01T00:00:00.
C12_Witness ==
    /\ cpc = "done" /\ StepSec = 0 /\ StartSec = 0
    /\ period = [kind |-> "every_month_D", d |-> 1]
    /\ anchor.day = Ord(2024, 6, 10)
    /\ calcResult = Ok(Ord(2024, 7, 1), 0)

\* C12 witness of the year change: every_month_1 from 2023-12-15 gives
\* 2024-01-01T00:00:00.
C12_WitnessDecember ==
    /\ cpc = "done" /\ StepSec = 0 /\ StartSec = 0
    /\ period = [kind |-> "every_month_D", d |-> 1]
    /\ anchor.day = Ord(2023, 12, 15)
    /\ calcResult = Ok(Ord(2024, 1, 1), 0)

\* C12 witness of the anchor's own month: every_month_30 from 2024-01-10
\* gives 2024-01-30T00:00:00.
C12_WitnessOwnMonth ==
    /\ cpc = "done" /\ StepSec = 0 /\ StartSec = 0
    /\ period = [kind |-> "every_month_D", d |-> 30]
    /\ anchor.day = Ord(2024, 1, 10)
    /\ calcResult = Ok(Ord(2024, 1, 30), 0)

(***************************************************************************)
(* Properties of calcUnExecutedTimes (specification SpecMissed).           *)
(***************************************************************************)
\* the call returned a list
MissedReturned == cpc \in {"missed_done", "missed_again"} /\ missed.kind = "list"

\* C13: the list calcUnExecutedTimes returns is strictly ascending, all its
\* elements are after last_sync and not after now, and it is empty when
\* the next occurrence after last_sync is not yet due.
C13_AscendingWithinWindow ==
    MissedReturned
        => LET t == missed.times
               first == calcNextSyncDatetime(anchor, period, start_time, end_time, step)
           IN /\ \A i \in 1..Len(t) : DtLess(anchor, t[i]) /\ ~DtLess(now, t[i])
              /\ \A i \in 1..(Len(t) - 1) : DtLess(t[i], t[i + 1])
              /\ (first.kind = "ok" /\ DtLess(now, first)) => t = <<>>

\* C14: the call repeated with last_sync advanced to the last element of a
\* non-empty result, with the same period, window, step and now, returns
\* the empty list.
C14_RerunIsEmpty ==
    (cpc = "missed_again") => missedAgain = ListResult(<<>>)

\* the fixed date of the period at start_time
C15_FixedOccurrence ==
    [day |-> Ord(period.y, period.m, period.d), sec |-> StartSec]

C15_WitnessNotDue ==
    /\ cpc = "missed_done"
    /\ period.kind = "fixed"
    /\ DtLess(now, C15_FixedOccurrence)
    /\ missed = ListResult(<<>>)

(***************************************************************************)
(* Properties of the breakpoint file (specifications Spec and SpecStore).  *)
(***************************************************************************)
\* C16: after an iterate_script run with any outcome, also one that failed
\* before iterating, the persisted record is the one of that run: the
\* breakpoint file exists and its counts are those of the run's result
\* (stated for a depend list that is not empty).
C16_EveryRunIsSaved ==
    (lastCall.op = "iterate_script" /\ dependLen > 0)
        => LET r == lastCall.result
               cp == LoadLatestBreakpointInfo(breakpoint)
           IN /\ cp # NoFile
              /\ cp.total_items = r.total_iterations
              /\ cp.successful_items = r.successful_iterations
              /\ cp.failed_items = r.failed_iterations

\* the last operation finished with every item successful
C17_FinishedComplete ==
    \/ /\ Iterated
       /\ lastCall.result.successful_iterations = lastCall.result.total_iterations
    \/ /\ lastCall.op = "catch_on"
       /\ lastCall.result.message \in {"all_succeeded", "already_complete"}
       /\ succeeded = 0..(dependLen - 1)

\* C17: when iterate_script or catch_on finishes with successful_items ==
\* total_items the checkpoint is cleared: no breakpoint file is left, and
\* no persisted checkpoint has successful_items == total_items (stated for
\* a depend list that is not empty).
C17_ClearedWhenComplete ==
    dependLen > 0
        => /\ C17_FinishedComplete => breakpoint = NoFile
           /\ LET cp == LoadLatestBreakpointInfo(breakpoint)
              IN (lastCall.op # "none" /\ cp # NoFile)
                     => cp.successful_items # cp.total_items

C18_WitnessCatchOn ==
    /\ lastCall.op = "load"
    /\ stored.attempted = NoFile
    /\ stored.last \in CatchOnInfos
    /\ lastCall.result.catch_on_executed
    /\ lastCall.result = stored.last

\* C19: after a save that was interrupted partway, a load returns either
\* the checkpoint saved before it or the new one, in full.
C19_InterruptedSaveKeepsRecord ==
    (lastCall.op = "load" /\ stored.attempted # NoFile)
        => lastCall.result \in {stored.last, stored.attempted}

(***************************************************************************)
(* Properties of retry (specification SpecRetry).                          *)
(***************************************************************************)
\* C20: retry after an iterator run that persisted failures re-runs the
\* previously failed items first, in their original order, before any other
\* item; when one of them fails again it stops there with a recovery-failed
\* result that names the failing index.
C20_RetryReRunsFailedFirst ==
    (lastCall.op = "retry" /\ lastCall.persisted # NoFile
       /\ lastCall.persisted.error_items # <<>>)
        => LET e == lastCall.persisted.error_items
               r == lastCall.result
               again == {k \in 1..Len(e) : e[k] \in lastCall.failing}
           IN IF again = {}
              THEN Len(r.invoked) >= Len(e) /\ SubSeq(r.invoked, 1, Len(e)) = e
              ELSE LET k == CHOOSE j \in again : \A i \in again : j <= i
                   IN /\ r.invoked = SubSeq(e, 1, k)
                      /\ r.message = "recovery_failed"
                      /\ r.failing_index = Some(e[k])

(***************************************************************************)
(* Properties of the three entry points of the handler (specification      *)
(* Spec).                                                                  *)
(***************************************************************************)
\* C21: iterate_script, catch_on and execute_script never let an exception
\* reach the caller: whatever fails (script or function missing, depend
\* missing or not a sequence, an item raising with either is_err_stop),
\* the call returns a result that carries a success flag and a message.
C21_AlwaysReturnsResult ==
    (lastCall.op \in {"iterate_script", "catch_on", "execute_script"})
        => /\ "success" \in DOMAIN lastCall.result
           /\ "message" \in DOMAIN lastCall.result
           /\ lastCall.result.success \in BOOLEAN
           /\ lastCall.result.message # ""

\* C21 witness: execute_script on a script whose function raises returned a
\* failure result.
C21_Witness ==
    /\ lastCall.op = "execute_script"
    /\ lastCall.kind = "function_raises"
    /\ lastCall.result.success = FALSE
    /\ lastCall.result.message = "exception"

\* C21 witness: iterate_script with is_err_stop on an item that raises
\* returned a result, as did one whose depend returns a non-sequence.
C21_WitnessIterate ==
    /\ lastCall.op = "iterate_script"
    /\ \/ lastCall.kind = "not_iterable"
       \/ lastCall.kind = "ok" /\ lastCall.is_err_stop /\ lastCall.failing # {}
    /\ "success" \in DOMAIN lastCall.result

(***************************************************************************)
(* The scheduler (SpecSched) and its dispatch loop under errors (SpecLoop). *)
(***************************************************************************)
\* the scripts of the rows that _load_scripts is to place in the heap: the
\* enabled ones with a period whose next occurrence, from last_sync or from
\* now, can be computed
LoadableScripts(rows, now_dt) ==
    { s \in ScriptNames :
        /\ rows[s].turn_on
        /\ rows[s].period # EmptyPeriod
        /\ NextSync(IF rows[s].last_sync = Null THEN now_dt ELSE rows[s].last_sync[1],
                    rows[s].period).kind = "ok" }

\* the heap entry of a loadable script
LoadedEntry(rows, now_dt, s) ==
    LET next_sync == NextSync(IF rows[s].last_sync = Null THEN now_dt
                              ELSE rows[s].last_sync[1], rows[s].period)
    IN << [day |-> next_sync.day, sec |-> next_sync.sec], s >>

HeapEntries(h) == { h[i] : i \in 1..Len(h) }

StartStep == loop.pc = "not_started" /\ loop'.pc = "top"

\* C22: after the load step of start() the heap holds exactly one entry for
\* each enabled schedule entry with a non-empty period and a computable
\* next occurrence, computed from last_sync or from now, and nothing else.
C22_HeapHoldsExactlyLoadable ==
    [][StartStep =>
          /\ HeapEntries(schedule_heap') =
                 { LoadedEntry(registry, DatetimeNow, s) :
                      s \in LoadableScripts(registry, DatetimeNow) }
          /\ Len(schedule_heap') = Cardinality(LoadableScripts(registry, DatetimeNow))]_vars

\* C23: when the next-occurrence computation raises for one entry during the
\* load, every other loadable entry is still placed in the heap.
C23_LoadIsolatesFailures ==
    [][StartStep =>
          \A s \in LoadableScripts(registry, DatetimeNow) :
              \E i \in 1..Len(schedule_heap') : schedule_heap'[i][2] = s]_vars

\* C24: a completing execution sets the entry's last_sync and clears its
\* immediate-run flag, and a completion callback pushes onto the heap only
\* while the scheduler is running: never once stop has been called.
C24_NoReinsertAfterStop ==
    [][/\ \A t \in executor.running :
              (t.phase = "run" /\ t \notin executor'.running)
                  => /\ registry'[t.name].last_sync = Some(DatetimeNow)
                     /\ ~registry'[t.name].immediate
       /\ (\E t \in executor.running :
               t.phase = "push" /\ t \notin executor'.running)
              => is_running /\ stopper.pc = "idle"]_vars

\* C25: a script whose period is a fixed date is one-shot: the dispatch
\* loop dispatches it at most once, and after its run completes it is not
\* put in the heap again for that same instant.
C25_FixedDateIsOneShot ==
    \A s \in ScriptNames :
        (loop.pc # "not_started" /\ registry[s].period.kind = "fixed")
            => loop.dispatched[s] <= 1

\* C26: the completion callback never puts a heap entry for a script whose
\* schedule entry is disabled or has an empty period, whichever way the
\* script was run (from the heap, by its immediate-run flag at start, or by
\* carry_up).
C26_NoEntryForDisabled ==
    [][\A t \in executor.running :
           (t.phase = "push" /\ t \notin executor'.running)
               => /\ registry[t.name].turn_on
                  /\ registry[t.name].period # EmptyPeriod]_vars

\* C27: after stop(immediate = true) no task that was queued in the pool and
\* not yet started when stop was called ever begins to execute.
C27_QueuedNeverStartAfterImmediateStop ==
    (stopper.pc # "idle" /\ stopper.immediate)
        => \A t \in executor.running : t.id \notin stopper.queued

\* C28: the executions that one carry_up call dispatches run one after the
\* other: at no time are two of them in flight.
C28_CarryUpRunsSequentially ==
    Cardinality({ t \in executor.running : t.src = "carry_up" /\ t.phase = "run" }) <= 1

\* C29: an error while dispatching a heap entry or while reloading from the
\* registry never ends the dispatch loop: the loop ends only once a stop
\* has been requested.
C29_LoopEndsOnlyOnStop ==
    loop.pc = "ended" => (stop_event /\ ~is_running /\ stopper.pc # "idle")

\* C29 witness: after an error in the loop, with no stop requested, the loop
\* is running and has dispatched an entry that came due after the error.
C29_Witness ==
    /\ loop.pc \in {"top", "waiting", "reload", "reloading"}
    /\ loop.faults > 0
    /\ loop.survived
    /\ stopper.pc = "idle"
    /\ is_running

\* C30: the reload of the dispatch loop, which clears the heap and fills it
\* again, is atomic with respect to the pushes of completion callbacks:
\* between the clearing and the end of the reload nothing else changes the
\* heap.
C30_ReloadIsAtomic ==
    [][(loop.pc = "reloading" /\ schedule_heap' # schedule_heap)
          => loop'.pc = "top"]_vars

(***************************************************************************)
(* The schedule registry (SpecRegistry) and convert_menu (SpecConvert).     *)
(***************************************************************************)
RowsOfName(rows, name) == { i \in 1..Len(rows) : rows[i].name = name }

\* C31: after any interleaving of get-or-create calls the table holds at
\* most one entry for each name, and the entries the calls created are
\* disabled and have an empty period.
C31_OneEntryPerName ==
    /\ \A name \in ScriptNames : Cardinality(RowsOfName(schedule_rows, name)) <= 1
    /\ \A i \in 1..Len(schedule_rows) :
           schedule_rows[i].remark = "auto"
               => schedule_rows[i].period = EmptyPeriod /\ ~schedule_rows[i].turn_on

\* the rows convert_menu left in place: those it found, by their position
ConvertStep == callers' = callers /\ schedule_rows' # schedule_rows

\* C32: convert_menu leaves the non-null last_sync_datetime of every entry
\* that existed before the call as it was, and every entry it creates has a
\* null last_sync_datetime.
C32_ConvertPreservesLastSync ==
    [][ConvertStep =>
          /\ Len(schedule_rows') >= Len(schedule_rows)
          /\ \A i \in 1..Len(schedule_rows) :
                 /\ schedule_rows'[i].name = schedule_rows[i].name
                 /\ schedule_rows[i].last_sync # Null
                        => schedule_rows'[i].last_sync = schedule_rows[i].last_sync
          /\ \A i \in (Len(schedule_rows) + 1)..Len(schedule_rows') :
                 schedule_rows'[i].last_sync = Null]_vars

\* C32 witness: Config.convert_menu has updated the period of an entry that
\* had run, whose last_sync is still the one stored before, and a
\* convert_menu has created an entry.
C32_Witness ==
    /\ \E i \in 1..Len(schedule_rows) :
           /\ schedule_rows[i].period.kind = "fixed"
           /\ schedule_rows[i].remark = ""
           /\ schedule_rows[i].last_sync = StoredSync
    /\ \E i \in 1..Len(schedule_rows) :
           /\ schedule_rows[i].remark \in {"menu", "config"}
           /\ schedule_rows[i].last_sync = Null

(***************************************************************************)
(* The per-script state machine of the scheduler (SpecSched).               *)
(***************************************************************************)
\* the executions of a script dispatched by the dispatch loop that are
\* queued in the pool or taken by a worker
LoopInFlight(s) ==
    { t \in { executor.pending[k] : k \in 1..Len(executor.pending) } \cup executor.running :
        t.name = s /\ t.src = "loop" }

HeapNames == { schedule_heap[i][2] : i \in 1..Len(schedule_heap) }

\* C33: a script is UNSCHEDULED, QUEUED or RUNNING and never two of them:
\* the dispatch loop never has two executions of one script in flight, and
\* the heap holds no entry for a script whose execution is in flight.
C33_OneStatePerScript ==
    \A s \in ScriptNames :
        /\ Cardinality(LoopInFlight(s)) <= 1
        /\ LoopInFlight(s) # {} => s \notin HeapNames

\* C34: as long as no empty-heap reload has taken place (so none overlaps a
\* completion callback), the heap never holds two entries of the same
\* script, also for scripts run by the immediate-run flag or by carry_up.
C34_NoDuplicateHeapEntries ==
    (loop.pc # "not_started" /\ ~loop.reloaded)
        => \A i, j \in 1..Len(schedule_heap) :
               schedule_heap[i][2] = schedule_heap[j][2] => i = j

(***************************************************************************)
(* The dispatch loop and time (SpecLoop).                                   *)
(***************************************************************************)
\* C35: the dispatch loop dispatches a popped entry only when its time has
\* come: at once if it is due when popped, otherwise after the wait has
\* timed out at its instant; when the stop signal is set during the wait
\* the loop ends without dispatching the entry.
C35_NeverDispatchedEarly ==
    [][/\ (loop.pc \in {"top", "waiting"} /\ loop'.dispatched # loop.dispatched)
          => LET entry == IF loop.pc = "waiting" THEN loop.entry
                          ELSE Head(schedule_heap)
             IN /\ ~DtLess(DatetimeNow, entry[1])
                /\ ~stop_event
                /\ loop'.dispatched =
                       [loop.dispatched EXCEPT ![entry[2]] = @ + 1]
       /\ (loop.pc = "waiting" /\ stop_event /\ loop' # loop)
          => /\ loop'.pc = "ended"
             /\ loop'.dispatched = loop.dispatched
             /\ executor' = executor]_vars

\* C35 witness: with no stop requested, the loop has dispatched an entry
\* that it had popped before its time and waited for.
C35_Witness ==
    /\ loop.pc # "not_started"
    /\ loop.waited
    /\ \E s \in ScriptNames : loop.dispatched[s] > 0
    /\ ~stop_event

\* C35 witness of the stop during the wait: the loop has ended on the stop
\* signal and has dispatched nothing.
C35_WitnessStopped ==
    /\ loop.pc = "ended"
    /\ stop_event
    /\ \A s \in ScriptNames : loop.dispatched[s] = 0
    /\ clock > SchedDay0

(***************************************************************************)
(* Checkpoints across iterate_script and catch_on (Spec).                   *)
(***************************************************************************)
\* C36: every checkpoint that iterate_script or catch_on has persisted has
\* successful_items + failed_items <= total_items and a
\* last_successful_index that is null or less than total_items.
C36_CheckpointCountsBounded ==
    LET info == LoadLatestBreakpointInfo(breakpoint)
    IN info # NoFile
          => /\ info.successful_items + info.failed_items <= info.total_items
             /\ \/ info.last_successful_index = Null
                \/ info.last_successful_index[1] < info.total_items

\* C37: catch_on answers "already fully executed, nothing to continue"
\* only when every item of the dependency sequence has succeeded in the
\* iterate_script and catch_on runs before it.
C37_AlreadyCompleteMeansAllSucceeded ==
    (lastCall.op = "catch_on" /\ lastCall.result.message = "already_complete")
        => succeeded = 0..(dependLen - 1)

\* C38: a catch_on never invokes an item that has already succeeded in the
\* iterate_script run or in a catch_on since.
C38_SucceededNeverInvokedAgain ==
    [][(lastCall'.op = "catch_on" /\ lastCall' # lastCall)
          => \A k \in 1..Len(lastCall'.result.continued_iterations) :
                 lastCall'.result.continued_iterations[k].index \notin succeeded]_vars

\* C39: when catch_on clears the checkpoint, every index 0..total_items-1
\* has succeeded in the iterate_script run and the catch_on runs since.
C39_ClearedMeansAllSucceeded ==
    (lastCall.op = "catch_on" /\ lastCall.result.cleared)
        => /\ succeeded = 0..(dependLen - 1)
           /\ breakpoint = NoFile

\* C39 witness: an iterate_script run that went on past two failures (stop-
\* on-error false) left a checkpoint, and a catch_on has cleared it.
C39_Witness ==
    /\ lastCall.op = "catch_on"
    /\ lastCall.result.cleared
    /\ lastCall.result.breakpoint_info.failed_items >= 2
    /\ lastCall.result.breakpoint_info.successful_items >= 1
    /\ breakpoint = NoFile

\* C39 witness for stop-on-error true: the checkpoint of a run stopped at
\* its first failure has been cleared by a catch_on.
C39_WitnessStopped ==
    /\ lastCall.op = "catch_on"
    /\ lastCall.result.cleared
    /\ lastCall.result.breakpoint_info.failed_items = 1
    /\ lastCall.result.breakpoint_info.successful_items + 1 < dependLen

(***************************************************************************)
(* A popped script stays in the schedule (SpecLoop).                        *)
(***************************************************************************)
\* the executions of a script that are queued in the pool or on a worker,
\* its completion callback included
InFlight(s) ==
    { t \in { executor.pending[k] : k \in 1..Len(executor.pending) } \cup executor.running :
        t.name = s }

\* the script is QUEUED, held by the dispatch loop until it is due, or RUNNING
Scheduled(s) ==
    \/ s \in HeapNames
    \/ loop.pc = "waiting" /\ loop.entry[2] = s
    \/ InFlight(s) # {}

\* C40: while the scheduler runs, a script with an enabled entry and a valid
\* non-empty period that the dispatch loop has popped does not drop out of
\* the schedule: it is held by the loop, running, or back in the heap.
C40_PoppedScriptStaysScheduled ==
    (is_running /\ ~stop_event /\ loop.pc \in {"top", "waiting"})
        => \A s \in LoadableScripts(registry, DatetimeNow) : Scheduled(s)

====
